---- MODULE Spec2Model ----
(***************************************************************************)
(* Three-tier supply chain simulator (PBC / PFP / PMP): the per-tick       *)
(* engine simTick, its initialisation and the UI inputs that reach it.     *)
(*                                                                         *)
(* Two engines are modelled, selected by `variant`:                        *)
(*   "part_000"  the "Planificador Humano" engine (global innovation list, *)
(*               manual price, experimental phases, no ledger sweep);      *)
(*   "part_001"  the engine with per-firm innovations, partial PMP supply, *)
(*               external replenishment and a ledger sweep.                *)
(*                                                                         *)
(* Fixed-point conventions (JS numbers are doubles):                       *)
(*   rng()            u / 1000, u in 0..999                                *)
(*   price            1e-5 units   (1.0 = 100000)                          *)
(*   quantities       tenths       (inventory, capacity, demand, amounts)  *)
(*   A, multipliers   1/100        (1.02 = 102)                            *)
(*   marginalCost     1e-4         (0.01 = 100)                            *)
(*   consumer slope b 1/100                                                *)
(* The seeded generator is abstracted as a choice of u at every draw site. *)
(***************************************************************************)
EXTENDS Integers, Sequences, FiniteSets, TLC

-----------------------------------------------------------------------------
(* Bounds of the model *)
MaxTick == 13
MaxPriceTick == 6
MaxDeepTick == 32
MaxPairTick == 3
MaxOrders == 40
MaxInnov == 2
MaxInputs == 2
MaxWindowTick == 42
MaxWindowInputs == 4
MaxWindowOrders == 90
MaxControlTick == 3
MaxControlInputs == 4
MaxIdleTick == 5001
MaxFinalInputs == 6

-----------------------------------------------------------------------------
(* Program constants (DEFAULT of part_000, defaultConfig of part_001) *)
P0 == 100000
PMin == 1000
GainPct == 8
MCFloor == 100
ProbPerTick000 == 30
ProbPerTick001 == 20
MinConsumers == 10      \* the least number of consumers part_001 creates
ConsumersN == 350       \* DEFAULT.consumersN of part_000
HistoryLen0 == 200      \* useState(200) of historyLen (part_000)
HistoryStep == 40       \* the step of the two history buttons
HistoryMin == 40
HistoryMax == 1200
LogCap == 5000          \* part_000 line 795
LogKeep == 2000
SeriesCap == 1000       \* part_001 line 606
TickMs000 == 700        \* DEFAULT.tickMs of part_000
TickMs001 == 1000       \* defaultConfig.tickMs of part_001

-----------------------------------------------------------------------------
(* Utilities *)
Max(a, b) == IF a >= b THEN a ELSE b
Min(a, b) == IF a <= b THEN a ELSE b
Abs(a) == IF a >= 0 THEN a ELSE -a

\* the element of a singleton set; Only({F(x) : x \in {e}}) is F(e) with e
\* evaluated once, as a statement sequence evaluates each assignment once
Only(S) == CHOOSE r \in S : TRUE

\* Math.round(n / d) for d > 0
Round(n, d) == (2 * n + d) \div (2 * d)

\* randRange(rng, a, b) = a + (b - a) * rng(), with rng() = u / 1000
randRange(a, b, u) == a + ((b - a) * u) \div 1000

\* variant of roundRange that draws a zero delay
roundRangeZero(a, b, u) == 0

\* Math.round(randRange(rng, a, b)) for integer a, b
roundRange(a, b, u) == Round(a * 1000 + (b - a) * u, 1000)

\* arr[Math.floor(rng() * arr.length)]
pickIndex(len, u) == (u * len) \div 1000 + 1

\* Number(x.toFixed(4)) on a price held in 1e-5 units: round to a multiple of 10
toFixed4(p) == 10 * Round(p, 10)

-----------------------------------------------------------------------------
(* Identities: `C${i}`, `PBC${i}`, `PFP${i}`, `PMP${i}` in creation order *)
AllConsumers == [i \in 1..ConsumersN |-> "C" \o ToString(i - 1)]
AllPBC == <<"PBC0", "PBC1">>
AllPFP == <<"PFP0", "PFP1">>
AllPMP == <<"PMP0", "PMP1">>
Levels == <<"PBC", "PFP", "PMP">>

SeqSet(sq) == {sq[i] : i \in DOMAIN sq}

VARIABLES
  variant,       \* which engine runs
  scenario,      \* the class of seeds and user behaviour of this run (see the draw sets)
  cfg,           \* the configuration initSimulation reads (DEFAULT / defaultConfig
                 \* merged with cfgOverride): consumersN and the three count ranges
  nInputs,       \* number of UI inputs so far
  t,             \* s.t
  price,         \* s.price
  consumers,     \* s.consumers: id -> [type, a, b, nextUpdateAt, nextChange]
  firms,         \* s.firms: id -> [level, A, capacity, marginalCost, inventory, planned, ...]
  orders,        \* s.orders: sequence of order records
  nextOid,       \* identity of the next order object
  innovations,   \* s.innovations (part_000) / f.innovations of every firm (part_001)
  point,         \* the metrics point recorded by the last completed tick
  series,        \* the recorded series in aggregate (seriesData of part_000, s.series of
                 \* part_001): length, tick of the oldest and newest point, and the two
                 \* sums behind E
  logs,          \* s.logs in aggregate: its length and how many entries were cut off
  ctl,           \* React states running and finished; observations: whether the
                 \* session was finalised since the last initSimulation, the number
                 \* of surveys run, the number of calls of initSimulation, whether
                 \* the last call replaced a simulation that had ticked, and the
                 \* consumers, firms and price the first call produced
  hist,          \* React state historyLen of part_000, and the historyLen the simTick
                 \* closure held by the interval was created with
  tickInfo,      \* per-tick observations: demand, served, the Qserved accumulator of
                 \* the serving loop (Qprod), price at start, completion
  priceMode,     \* React state priceMode of part_000: "auto" | "manual"
  mode,          \* React state mode of part_001: "auto" | "user"
  manualPrice,   \* React state manualPrice
  userDemandFn,  \* perceived-demand override (NoFn = automatic)
  phaseIdx       \* React state phaseIdx

vars == <<variant, scenario, cfg, nInputs, t, price, consumers, firms, orders, nextOid, innovations,
          point, series, logs, ctl, hist, tickInfo, priceMode, mode, manualPrice,
          userDemandFn, phaseIdx>>

NoFn == [type |-> "none", A |-> 0, B |-> 0]

-----------------------------------------------------------------------------
(* Population: what the creation loops of initSimulation make out of cfg *)

\* the draw behind Math.round(randRange(rng, range[0], range[1])) of the three counts
CountDraw == 500

\* passes of for (let i = 0; i < count; i++) with count drawn from the range
countOf(range) == Max(0, Round(range[1] * 1000 + (range[2] - range[1]) * CountDraw, 1000))

\* part_001 line 207: N = Math.max(10, Math.round(cfg.consumersN));
\* part_000 line 444 loops to DEFAULT.consumersN
consumersCount == IF variant = "part_001" THEN Max(MinConsumers, cfg.consumersN)
                  ELSE Max(0, cfg.consumersN)

Consumers == SubSeq(AllConsumers, 1, consumersCount)
PBCs == SubSeq(AllPBC, 1, countOf(cfg.pbcCountRange))
PFPs == SubSeq(AllPFP, 1, countOf(cfg.pfpCountRange))
PMPs == SubSeq(AllPMP, 1, countOf(cfg.pmpCountRange))
FirmSeq(level) == IF level = "PBC" THEN PBCs ELSE IF level = "PFP" THEN PFPs ELSE PMPs

-----------------------------------------------------------------------------
(* Demand curves *)

\* ln(1 + max(0, p)) in 1/100, by the Pade approximant 2x / (2 + x)
Ln1p(p) == LET x == Max(0, p) IN (200 * x) \div (200000 + x)

\* exp(-y) in 1/100 for y in 1/100: 1 / (1 + y + y^2/2), mirrored for y < 0
ExpNeg(y) == IF y >= 0 THEN 2000000 \div (20000 + 200 * y + y * y)
             ELSE (20000 + 200 * (-y) + y * y) \div 200

\* the closed-form curve of a consumer, before noise (tenths)
curveQ(c, p) ==
  IF c.type = "linear" THEN c.a - (c.b * p) \div 1000000
  ELSE IF c.type = "log" THEN c.a - (c.b * Ln1p(p)) \div 1000
  ELSE IF c.type = "exp" THEN (c.a * ExpNeg((c.b * p) \div 100000)) \div 100
  ELSE IF c.type = "poly" THEN
    LET cc == Max(100, c.b * 10)
        pm == p \div 100
    IN Max(0, c.a - (c.b * p) \div 1000000 - (cc * ((pm * pm) \div 1000)) \div 10000000)
  ELSE 0

\* computeConsumerDemand(c, p, rng): curve times noise in [0.95, 1.05], floored at 0
computeConsumerDemand(c, p, u) ==
  LET noise == 1000 + (u - 500) \div 10
  IN Max(0, (curveQ(c, p) * noise) \div 1000)

\* consumerReact(prevPrice, newPrice, rng) in 1/100; roll and fac are two draws
consumerReact(prevPrice, newPrice, roll, fac) ==
  IF newPrice = prevPrice THEN 100
  ELSE IF newPrice > prevPrice THEN
    IF roll < 800 THEN randRange(70, 95, fac)
    ELSE IF roll < 980 THEN randRange(98, 102, fac)
    ELSE randRange(101, 120, fac)
  ELSE
    IF roll < 700 THEN randRange(101, 120, fac)
    ELSE IF roll < 950 THEN randRange(98, 102, fac)
    ELSE randRange(70, 95, fac)

\* createDemandFn(type, params)(p), the planner's override, in tenths
createDemandFn(fn, p) ==
  IF fn.type = "linear" THEN Max(0, fn.A - (fn.B * p) \div 1000000)
  ELSE IF fn.type = "exp" THEN Max(0, (fn.A * ExpNeg((fn.B * p) \div 100000)) \div 100)
  ELSE IF fn.type = "log" THEN Max(0, fn.A - (fn.B * Ln1p(p)) \div 1000)
  ELSE Max(0, fn.A - (fn.B * p) \div 1000000)

\* EXPERIMENT_PHASES[phaseIdx].feedbackStrength in 1/100
feedbackStrength(idx) == IF idx = 0 THEN 5 ELSE IF idx = 1 THEN 12 ELSE 40

-----------------------------------------------------------------------------
(* Records *)

Firm(level, A, capacity, marginalCost, inventory, hasInnovations) ==
  [level |-> level, A |-> A, capacity |-> capacity, marginalCost |-> marginalCost,
   inventory |-> inventory, planned |-> 0,
   hasInnovations |-> hasInnovations,   \* the firm object has an innovations array
   produced |-> 0,      \* produced of the last history entry
   invBefore |-> 0,     \* inventory read by the last serving step
   nHistory |-> 0,      \* history.length
   perceived |-> 0]     \* what perceivedFn returned to this firm's last plan

\* what a child order saw of its parent when it was last resolved
NoCascade == [seen |-> FALSE, inv |-> 0, pending |-> FALSE, moved |-> 0, filled |-> FALSE]

\* an order object; created, delivered, fills and casc are observations:
\* the tick that pushed it, the quantity handed to its buyer so far, the number of
\* hand-overs, and the cascade step of a child order
Order(id, level, from, to, amount, due, orig, now) ==
  [id |-> id, level |-> level, from |-> from, to |-> to, amount |-> amount,
   due |-> due, filled |-> FALSE, orig |-> orig, created |-> now,
   delivered |-> 0, fills |-> 0, casc |-> NoCascade]

Innovation(firm, level, costMul, tfpMul, now, adopt) ==
  [firm |-> firm, level |-> level, costMul |-> costMul, tfpMul |-> tfpMul,
   scheduleAt |-> now, adoptAt |-> now + adopt, adopted |-> FALSE,
   adoptedAt |-> 0,     \* observation: the tick that set adopted
   applied |-> 0]       \* observation: how many times its multipliers were applied

OrderIdx(ords, id) == CHOOSE i \in DOMAIN ords : ords[i].id = id
HasOrder(ords, id) == \E i \in DOMAIN ords : ords[i].id = id

\* variant of the filter that lets the orders of the last stage of the chain (the
\* ones that never escalate) through before they are due
UnfilledIds(ords, now) ==
  LET last == IF variant = "part_000" THEN "PFP->PMP" ELSE "EXTERNAL->PMP"
      open == SelectSeq(ords, LAMBDA o : ~o.filled /\ (o.due <= now \/ o.level = last))
  IN [k \in 1..Len(open) |-> open[k].id]

\* s.orders.filter((o) => !o.filled && o.due <= s.t), as the ids in ledger order
RECURSIVE DueIds(_, _)
DueIds(ords, now) ==
  IF ords = <<>> THEN <<>>
  ELSE IF ~Head(ords).filled /\ Head(ords).due <= now
       THEN <<Head(ords).id>> \o DueIds(Tail(ords), now)
       ELSE DueIds(Tail(ords), now)

-----------------------------------------------------------------------------
(* Draws of one tick.  Every field is the u of one rng() call site. *)

\* the draws of one consumer in one tick
Calm == [r |-> 0, ra |-> 500, rb |-> 500, rn |-> 0,
         upd |-> 500, ua |-> 500, sr |-> 0, ub |-> 500, da |-> 500, db |-> 500,
         shock |-> 500, sf |-> 0, ti |-> 0,
         ja |-> 500, jb |-> 500, noise |-> 500, roll |-> 0, fac |-> 500,
         noise2 |-> 500]

\* the draws of a consumer whose next update is scheduled as late as can be
Late == [Calm EXCEPT !.ti = 999]

ConsumerDraws == IF scenario = "deep" THEN {Calm, Late} ELSE {Calm}

-----------------------------------------------------------------------------
(* part_000: consumers update (simTick lines 572-621) *)

\* regime switch of a consumer that reached nextChange
regimeSwitch(c, now, d) ==
  LET c1 == IF d.r < 330
              THEN [c EXCEPT !.type = "linear", !.a = randRange(1000, 1500, d.ra),
                             !.b = randRange(50, 100, d.rb)]
            ELSE IF d.r < 660
              THEN [c EXCEPT !.type = "log", !.a = randRange(800, 1200, d.ra),
                             !.b = randRange(500, 1000, d.rb)]
            ELSE [c EXCEPT !.type = "exp", !.a = randRange(900, 1200, d.ra),
                           !.b = randRange(10, 30, d.rb)]
  IN [c1 EXCEPT !.nextChange = now + 30 + randRange(0, 70, d.rn)]

\* resample of (a, b) from the initialisation distribution
resampleAB(c, ua, sr, ub) ==
  [c EXCEPT !.a = randRange(50, 2000, ua),
            !.b = IF sr < 750 THEN randRange(1, 1000, ub)
                  ELSE IF sr < 950 THEN 0
                  ELSE -randRange(10, 500, ub)]

\* variant of the scheduled update that leaves the schedule where it was
scheduledUpdateStale(c, now, d, driftA, driftB) == c

\* scheduled update of a consumer that reached nextUpdateAt;
\* driftA and driftB are the widths of the drift (0.08 / 0.04 or 0.1 / 0.05) in 1/1000
scheduledUpdate(c, now, d, driftA, driftB) ==
  LET c1 == IF d.upd < 150 THEN resampleAB(c, d.ua, d.sr, d.ub)
            ELSE [c EXCEPT !.a = c.a + (c.a * (d.da - 500) * driftA) \div 1000000,
                           !.b = c.b + (c.b * (d.db - 500) * driftB) \div 1000000]
      c2 == IF d.shock < 10
            THEN [c1 EXCEPT !.a = (c1.a * randRange(150, 300, d.sf)) \div 100]
            ELSE c1
  IN [c2 EXCEPT !.nextUpdateAt = now + roundRange(30, 90, d.ti)]

\* one consumer of the loop: the updated consumer and its demand this tick
consumerStep000(c, now, prevPrice, p, phase, d) ==
  LET c1 == IF now >= c.nextChange THEN regimeSwitch(c, now, d) ELSE c
      c2 == IF now >= c1.nextUpdateAt THEN scheduledUpdate(c1, now, d, 80, 40) ELSE c1
      c3 == [c2 EXCEPT !.a = c2.a + (c2.a * (d.ja - 500)) \div 100000,
                       !.b = c2.b + (c2.b * (d.jb - 500)) \div 100000]
      c4 == IF feedbackStrength(phase) # 0
            THEN [c3 EXCEPT !.a = c3.a + (feedbackStrength(phase) * (prevPrice - p)) \div 1000000]
            ELSE c3
      baseQ == computeConsumerDemand(c4, p, d.noise)
      react == consumerReact(prevPrice, p, d.roll, d.fac)
  IN [c |-> c4, q |-> (baseQ * react) \div 100, nudge |-> c4.a - c3.a, react |-> react]

\* variant of consumersLoop000 after which no consumer is left
consumersLoopNone(ids, cs, now, prevPrice, p, phase, cd) ==
  [consumers |-> << >>, Qagg |-> 0, nudges |-> {}, reacts |-> {}]

RECURSIVE consumersLoop000(_, _, _, _, _, _, _)
\* for (const c of s.consumers) {...}: the updated consumers and Qagg
consumersLoop000(ids, cs, now, prevPrice, p, phase, cd) ==
  IF ids = <<>> THEN [consumers |-> cs, Qagg |-> 0, nudges |-> {}, reacts |-> {}]
  ELSE Only({ Only({ [consumers |-> rest.consumers, Qagg |-> r.q + rest.Qagg,
                      nudges |-> {r.nudge} \cup rest.nudges,
                      reacts |-> {r.react} \cup rest.reacts] :
                       rest \in {consumersLoop000(Tail(ids), [cs EXCEPT ![Head(ids)] = r.c],
                                                  now, prevPrice, p, phase, cd)} }) :
                r \in {consumerStep000(cs[Head(ids)], now, prevPrice, p, phase,
                                       cd[Head(ids)])} })

-----------------------------------------------------------------------------
(* part_000: PBC planning (simTick lines 623-644) *)

\* f.A * (f.capacity || 1)
weight000(f) == f.A * (IF f.capacity = 0 THEN 10 ELSE f.capacity)

RECURSIVE sumWeights000(_, _)
sumWeights000(ids, fs) ==
  IF ids = <<>> THEN 0 ELSE weight000(fs[Head(ids)]) + sumWeights000(Tail(ids), fs)

\* variant of perceivedFn000 that never consults the override
perceivedFnAuto(fn, Qagg, p, u) == (Qagg * (850 + (300 * u) \div 1000)) \div 1000

\* perceivedFn(s.price): the override if set, else Qagg * (0.85 + 0.3 * rng())
perceivedFn000(fn, Qagg, p, u) ==
  IF fn # NoFn THEN createDemandFn(fn, p)
  ELSE (Qagg * (850 + (300 * u) \div 1000)) \div 1000

\* the plan of one PBC firm and its order to a PFP; d = [perceived, pick, delay]
plan000(id, st, now, fn, Qagg, p, sumA, d) ==
  LET f == st.firms[id]
      perceived == perceivedFn000(fn, Qagg, p, d.perceived)
      plan == (Max(0, perceived) * weight000(f)) \div sumA
      needed == plan - f.inventory
      pfp == PFPs[pickIndex(Len(PFPs), d.pick)]
      delay == roundRange(5, 15, d.delay)
      st1 == [st EXCEPT !.firms[id].planned = plan, !.firms[id].perceived = perceived]
  IN IF plan > f.inventory
     THEN [st1 EXCEPT !.orders = Append(@, Order(st.nextOid, "PBC->PFP", id, pfp,
                                                needed, now + delay, 0, now)),
                      !.nextOid = @ + 1]
     ELSE st1

RECURSIVE planning000(_, _, _, _, _, _, _, _)
\* st = [firms, orders, nextOid, nlogs]; pd[f] = the draws of firm f
planning000(ids, st, now, fn, Qagg, p, sumA, pd) ==
  IF ids = <<>> THEN st
  ELSE Only({ planning000(Tail(ids), st2, now, fn, Qagg, p, sumA, pd) :
                st2 \in {plan000(Head(ids), st, now, fn, Qagg, p, sumA, pd[Head(ids)])} })

-----------------------------------------------------------------------------
(* part_000: base production of PMP and PFP (simTick lines 646-658) *)

\* (capacity || 10) * (0.4 + rng() * 0.6)
baseProduction(capacity, u) ==
  ((IF capacity = 0 THEN 100 ELSE capacity) * (400 + (600 * u) \div 1000)) \div 1000

RECURSIVE produce000(_, _, _)
produce000(ids, fs, pr) ==
  IF ids = <<>> THEN fs
  ELSE Only({ produce000(Tail(ids), fs1, pr) :
                fs1 \in {LET id == Head(ids)
                              produced == baseProduction(fs[id].capacity, pr[id])
                          IN [fs EXCEPT ![id].inventory = @ + produced,
                                        ![id].produced = produced,
                                        ![id].nHistory = @ + 1]} })

-----------------------------------------------------------------------------
(* part_000: due orders (simTick lines 660-709) *)

\* s.logs.push(...) inside the order loop: the pushes of this tick are counted in st
pushLog(st) == [st EXCEPT !.nlogs = @ + 1]

\* hand `amount` of order i from its supplier to its buyer and mark it filled
deliver(st, i, supplier, buyer, amount) ==
  [st EXCEPT !.firms[supplier].inventory = @ - amount,
             !.firms[buyer].inventory = @ + amount,
             !.orders[i].filled = TRUE,
             !.orders[i].delivered = @ + amount,
             !.orders[i].fills = @ + 1]

\* a due PBC->PFP order: fill it, or ask a PMP for the shortfall
resolvePbcPfp000(st, i, now, e) ==
  LET ord == st.orders[i]
      pfp == st.firms[ord.to]
  IN IF pfp.inventory >= ord.amount
     THEN pushLog(deliver(st, i, ord.to, ord.from, ord.amount))
     ELSE LET need == Max(0, ord.amount - pfp.inventory)
              pmp == PMPs[pickIndex(Len(PMPs), e.pick)]
              delay == roundRange(5, 20, e.delay)
          IN [st EXCEPT !.orders = Append(@, Order(st.nextOid, "PFP->PMP", ord.to, pmp,
                                                   need, now + delay, ord.id, now)),
                        !.nextOid = @ + 1]

\* observation of the cascade step of child i: `before` is the state once the child
\* has been supplied, `after` the state once its parent has been looked at
observeCascade(before, after, i) ==
  LET ord == before.orders[i]
  IN IF ord.orig = 0 \/ ~HasOrder(before.orders, ord.orig) THEN after
     ELSE LET j == OrderIdx(before.orders, ord.orig)
              orig == before.orders[j]
          IN [after EXCEPT !.orders[i].casc =
                [seen |-> TRUE,
                 inv |-> before.firms[ord.from].inventory,
                 pending |-> ~orig.filled,
                 moved |-> after.firms[orig.from].inventory
                             - before.firms[orig.from].inventory,
                 filled |-> after.orders[j].filled]]

\* variant of the cascade that never hands the parent over
cascadeNever(st, ord) == st

\* if (ord.orig) {...}: the parent is handed over when the PFP now covers it
cascade000(st, ord) ==
  IF ord.orig = 0 THEN st
  ELSE LET j == OrderIdx(st.orders, ord.orig)
           orig == st.orders[j]
       IN IF st.firms[ord.from].inventory >= orig.amount
          THEN deliver(st, j, ord.from, orig.from, orig.amount)
          ELSE st

\* a due PFP->PMP order: filled only when the PMP covers it wholly
resolvePfpPmp000(st, i) ==
  LET ord == st.orders[i]
  IN IF st.firms[ord.to].inventory >= ord.amount
     THEN Only({ observeCascade(st1, cascade000(st1, ord), i) :
                   st1 \in {pushLog(deliver(st, i, ord.to, ord.from, ord.amount))} })
     ELSE st

RECURSIVE processOrders000(_, _, _, _)
\* the loop over the snapshot of due ids; esc[id] = the draws of an escalation
processOrders000(ids, st, now, esc) ==
  IF ids = <<>> THEN st
  ELSE Only({ processOrders000(Tail(ids), st1, now, esc) :
                st1 \in {LET i == OrderIdx(st.orders, Head(ids))
                              ord == st.orders[i]
                          IN IF ord.level = "PBC->PFP"
                               THEN resolvePbcPfp000(st, i, now, esc[ord.id])
                             ELSE IF ord.level = "PFP->PMP" THEN resolvePfpPmp000(st, i)
                             ELSE st} })

-----------------------------------------------------------------------------
(* part_000: PBC serve (simTick lines 711-720) *)

\* variant of served000 that serves the plan whatever the stock
servedPlan(f) == Max(0, f.planned)

\* variant of served000 that serves the whole stock whatever the plan
servedStock(f) == Max(0, f.inventory)

\* Math.min(f.planned || 0, f.inventory || 0, f.capacity || 9999), floored at 0
served000(f) ==
  Max(0, Min(f.planned, Min(f.inventory, IF f.capacity = 0 THEN 99990 ELSE f.capacity)))

RECURSIVE serve000(_, _)
serve000(ids, fs) ==
  IF ids = <<>> THEN [firms |-> fs, Qserved |-> 0]
  ELSE Only({ Only({ [firms |-> rest.firms, Qserved |-> produced + rest.Qserved] :
                       rest \in {serve000(Tail(ids),
                                          [fs EXCEPT ![Head(ids)].invBefore = fs[Head(ids)].inventory,
                                                     ![Head(ids)].inventory = @ - produced,
                                                     ![Head(ids)].produced = produced,
                                                     ![Head(ids)].nHistory = @ + 1])} }) :
                produced \in {served000(fs[Head(ids)])} })

-----------------------------------------------------------------------------
(* Price controller *)

\* variant of manualOverride without the floor
manualOverrideUnfloored(pmode, p, manual) == IF pmode = "manual" THEN manual ELSE p

\* s.price at the start of the tick: pinned in manual mode (part_000 line 570)
manualOverride(pmode, p, manual) == IF pmode = "manual" THEN Max(PMin, manual) ELSE p

\* variant of priceAdjust000 that adjusts in every price mode
priceAdjustAlways(pmode, p, Qagg, Qserved) ==
  Max(PMin, p + (((p * GainPct) \div 100) * (IF Qagg = 0 THEN 0 ELSE Qagg - Qserved))
                  \div Max(10, Qagg))

\* part_000 lines 722-727: the automatic adjustment, only in auto mode
priceAdjust000(pmode, p, Qagg, Qserved) ==
  IF pmode = "auto"
  THEN Max(PMin, p + (((p * GainPct) \div 100) * (IF Qagg = 0 THEN 0 ELSE Qagg - Qserved))
                       \div Max(10, Qagg))
  ELSE p

-----------------------------------------------------------------------------
(* part_000: innovations (simTick lines 729-778) *)

\* one roll per tick; iv = [roll, level, firm, cost, tfp, adopt]
schedule000(inn, now, iv) ==
  IF iv.roll < ProbPerTick000
  THEN LET level == Levels[pickIndex(Len(Levels), iv.level)]
           fseq == FirmSeq(level)
       IN IF Len(fseq) > 0
          THEN Append(inn, Innovation(fseq[pickIndex(Len(fseq), iv.firm)], level,
                                      randRange(92, 99, iv.cost),
                                      randRange(102, 125, iv.tfp),
                                      now, roundRange(10, 60, iv.adopt)))
          ELSE inn
  ELSE inn

\* firm.marginalCost = Math.max(0.01, firm.marginalCost * innov.costMul)
adoptCost000(mc, costMul) == Max(MCFloor, (mc * costMul) \div 100)

\* variant of the adoption that divides the productivity by tfpMul
adoptADown(A, tfpMul) == ((IF A = 0 THEN 100 ELSE A) * 100) \div tfpMul

\* firm.A = (firm.A || 1) * innov.tfpMul
adoptA(A, tfpMul) == ((IF A = 0 THEN 100 ELSE A) * tfpMul) \div 100

\* variant of adoptable that forgets the adopted flag
adoptableAgain(x, now) == x.adoptAt <= now

\* variant of adoptable that forgets the adoption tick
adoptableEarly(x, now) == ~x.adopted

\* the filter of the adoption loops: (x) => !x.adopted && x.adoptAt <= s.t
adoptable(x, now) == ~x.adopted /\ x.adoptAt <= now

RECURSIVE adopt000(_, _, _, _)
\* the loop over s.innovations.filter((x) => !x.adopted && x.adoptAt <= s.t)
adopt000(k, inn, fs, now) ==
  IF k > Len(inn) THEN [innovations |-> inn, firms |-> fs]
  ELSE IF adoptable(inn[k], now)
  THEN Only({ adopt000(k + 1, inn1, fs1, now) :
                inn1 \in {[inn EXCEPT ![k].adopted = TRUE, ![k].adoptedAt = now,
                                      ![k].applied = @ + 1]},
                fs1 \in {[fs EXCEPT ![inn[k].firm].marginalCost =
                                      adoptCost000(@, inn[k].costMul),
                                    ![inn[k].firm].A = adoptA(@, inn[k].tfpMul)]} })
  ELSE adopt000(k + 1, inn, fs, now)

-----------------------------------------------------------------------------
(* Draw sets of the engine, by scenario:                                   *)
(*   "ledger"  part_000, the planner sets and changes the override         *)
(*   "floor"   part_000, oversupply under the override drives the price    *)
(*   "price"   part_000, the planner drives price mode, manual price,      *)
(*             phase and override over a short run                         *)
(*   "innov"   part_000, innovations vary                                  *)
(*   "deep"    part_000, one long run with an innovation every tick        *)
(*   "reset"   part_001, from the mounted component through Reset, with    *)
(*             innovations                                                 *)
(*   "user"    part_001, Reset, the mode radio and the user's demand, with *)
(*             innovations                                                 *)
(*   "thin"    part_001, Reset, a population whose demand is below 1 unit  *)
(*   "pair"    part_000 with two Final firms, the planning draws vary      *)
(*   "pair1"   part_001 with two Final firms, the planning draws vary      *)
(*   "window"  part_000, a long run in which the planner moves the history *)
(*             window and pauses                                           *)
(*   "control" part_000, the planner pauses, resumes and finalises         *)
(*   "control1" part_001, Reset, Run, Pause, Finalize and the buttons of   *)
(*             the closing dialog                                          *)
(*   "idle"    part_001, the mounted component left running untouched      *)
(*   "deep1"   part_001, Reset and one long run of a thin population       *)
(*   "final"   part_000, the planner sets the history window and the speed *)
(*             before the first tick and finalises during a long run       *)

Scenarios000 == {"ledger", "floor", "price", "innov", "deep", "pair", "window", "control",
                 "final"}
Long == {"window", "final"}
Scenarios001 == {"reset", "user", "thin", "pair1", "control1", "idle", "deep1"}
Thin == {"thin", "deep1"}
Deep == {"deep", "deep1"}
TwoFinal == {"pair", "pair1"}

PlanDraws ==
  IF scenario \in TwoFinal
    THEN { [perceived |-> u, pick |-> 0, delay |-> 0] : u \in {0, 999} }
  ELSE IF scenario \in Thin
    THEN { [perceived |-> 0, pick |-> 0, delay |-> 0] }
  ELSE IF scenario \in Scenarios001
    THEN { [perceived |-> 999, pick |-> 0, delay |-> 0] }
  ELSE { [perceived |-> 500, pick |-> 0, delay |-> 0] }
ProdDrawsPFP == {0}
ProdDrawsPMP == {0}
EscDraws == { [pick |-> 0, delay |-> 0, replenish |-> 0] }
NoInnov == [roll |-> 500, level |-> 0, firm |-> 0, cost |-> 0, tfp |-> 0, adopt |-> 0]
InnovDraws ==
  IF scenario = "innov"
    THEN {NoInnov} \cup { [NoInnov EXCEPT !.roll = 0, !.level = c, !.cost = c, !.tfp = c] :
                            c \in {0, 999} }
  ELSE IF scenario = "deep" THEN { [NoInnov EXCEPT !.roll = 0, !.level = 999] }
  ELSE IF scenario \in {"reset", "user"} THEN {NoInnov, [NoInnov EXCEPT !.roll = 0]}
  ELSE {NoInnov}

\* the values the UI can put into the engine's inputs
ManualPrices == {0, 45004}
EditorFns ==
  IF scenario = "ledger"
    THEN { [type |-> "linear", A |-> 0, B |-> 0], [type |-> "linear", A |-> 600, B |-> 0] }
  ELSE { [type |-> "linear", A |-> 600, B |-> 0] }
Phases == {0, 2}

TickBound == IF scenario \in Deep THEN MaxDeepTick
             ELSE IF scenario = "price" THEN MaxPriceTick
             ELSE IF scenario \in TwoFinal THEN MaxPairTick
             ELSE IF scenario \in Long THEN MaxWindowTick
             ELSE IF scenario \in {"control", "control1"} THEN MaxControlTick
             ELSE IF scenario = "idle" THEN MaxIdleTick ELSE MaxTick
OrdersBound == IF scenario \in Long THEN MaxWindowOrders ELSE MaxOrders
InputBound == IF scenario = "window" THEN MaxWindowInputs
              ELSE IF scenario = "final" THEN MaxFinalInputs
              ELSE IF scenario \in {"control", "control1"} THEN MaxControlInputs
              ELSE IF scenario = "idle" THEN 0 ELSE MaxInputs
InnovBound == IF scenario = "deep" THEN MaxDeepTick ELSE MaxInnov

-----------------------------------------------------------------------------
(* part_000: initSimulation (lines 427-529) *)

\* one consumer of the creation loop; d = [typeRand, ua, sr, ub, nc, ti]
initConsumer(d) ==
  resampleAB([type |-> IF d.typeRand < 600 THEN "linear"
                       ELSE IF d.typeRand < 850 THEN "log"
                       ELSE IF d.typeRand < 980 THEN "exp" ELSE "poly",
              a |-> 0, b |-> 0,
              nextUpdateAt |-> roundRange(30, 90, d.ti),
              nextChange |-> randRange(0, 50, d.nc)],
             d.ua, d.sr, d.ub)

\* a consumer with a = 5 and b = 10: no demand at any price from 0.5 up
Idle == [typeRand |-> 0, ua |-> 0, sr |-> 0, ub |-> 999, nc |-> 999, ti |-> 0]

ConsumerInitDraws(id) ==
  IF id # AllConsumers[1] THEN {Idle}
  ELSE IF scenario \in Thin
    THEN { [typeRand |-> 0, ua |-> 0, sr |-> 0, ub |-> 450, nc |-> 999, ti |-> 0] }
  ELSE IF scenario \in Scenarios001 \cup {"config"}
    THEN { [typeRand |-> 0, ua |-> 500, sr |-> 0, ub |-> 999, nc |-> 999, ti |-> 0] }
  ELSE { [typeRand |-> 0, ua |-> 0, sr |-> 0, ub |-> 999, nc |-> nc, ti |-> 0] :
           nc \in {0, 999} }

\* firms of part_000 with their randomised parameters; u = [A, capacity, cost]
initFirm000(level, u) ==
  IF level = "PBC"
    THEN Firm(level, randRange(80, 130, u.A), randRange(100, 500, u.capacity),
              randRange(2000, 10000, u.cost), 0, FALSE)
  ELSE IF level = "PFP"
    THEN Firm(level, randRange(80, 130, u.A), randRange(100, 800, u.capacity),
              randRange(1000, 8000, u.cost), 0, FALSE)
  ELSE Firm(level, randRange(80, 130, u.A), randRange(300, 1400, u.capacity),
            randRange(500, 6000, u.cost), 0, FALSE)

LevelOf(id) == IF id \in SeqSet(AllPBC) THEN "PBC"
               ELSE IF id \in SeqSet(AllPFP) THEN "PFP" ELSE "PMP"
FirmIds == SeqSet(PBCs) \cup SeqSet(PFPs) \cup SeqSet(PMPs)

\* the configuration in force: DEFAULT of part_000, defaultConfig of part_001, with
\* the population bounded to one or two firms per level and the least number of
\* consumers
ModelConfig ==
  [consumersN |-> IF scenario \in Scenarios001 THEN MinConsumers ELSE 1,
   pbcCountRange |-> IF scenario \in TwoFinal THEN <<2, 2>> ELSE <<1, 1>>,
   pfpCountRange |-> <<1, 1>>, pmpCountRange |-> <<1, 1>>]

FirmInitDraws(id) ==
  IF id = AllPBC[2]
    THEN { [A |-> 999, capacity |-> 500, cost |-> 0] }
  ELSE IF scenario \in {"floor", "price"} /\ LevelOf(id) = "PBC"
    THEN { [A |-> 400, capacity |-> 999, cost |-> 0] }
  ELSE { [A |-> 400, capacity |-> 0, cost |-> 0] }

RECURSIVE sumDemand(_, _, _, _)
\* sum of computeConsumerDemand(c, p, rng) over the consumers
\* (the terms are added in two halves, which keeps the evaluation shallow)
sumDemand(ids, cs, p, u) ==
  IF ids = <<>> THEN 0
  ELSE IF Len(ids) = 1 THEN computeConsumerDemand(cs[ids[1]], p, u)
  ELSE LET h == Len(ids) \div 2
       IN sumDemand(SubSeq(ids, 1, h), cs, p, u)
            + sumDemand(SubSeq(ids, h + 1, Len(ids)), cs, p, u)

RECURSIVE sumCapacity(_, _)
sumCapacity(ids, fs) ==
  IF ids = <<>> THEN 0 ELSE fs[Head(ids)].capacity + sumCapacity(Tail(ids), fs)

RECURSIVE calibrate000(_, _, _, _, _)
\* the loop of at most 40 iterations that moves p0 by 5% towards supply = demand
calibrate000(iter, p, cs, fs, u) ==
  IF iter >= 40 THEN p
  ELSE LET Qagg == sumDemand(Consumers, cs, p, u)
           oferta == Max(10, sumCapacity(PBCs, fs))
       IN IF 100 * Abs(Qagg - oferta) < Max(10, oferta) THEN p
          ELSE IF Qagg > oferta THEN calibrate000(iter + 1, (p * 105) \div 100, cs, fs, u)
          ELSE calibrate000(iter + 1, (p * 95) \div 100, cs, fs, u)

CalibDraws == {500}

NoSeries == [len |-> 0, first |-> 0, last |-> 0, sumQopt |-> 0, sumAbs |-> 0]
NoLogs == [len |-> 0, dropped |-> 0]
NoPoint == [t |-> 0, price |-> 0, qDemand |-> 0, qServed |-> 0, efficiency |-> 1000]
NoTick == [prevPrice |-> 0, priceInForce |-> 0, Qagg |-> 0, Qserved |-> 0, Qprod |-> 0,
           mode |-> "auto", manual |-> 0, completed |-> TRUE,
           thrownAt |-> "none",    \* the step in which simTick threw, if it did
           badEval |-> FALSE,      \* the planning loop called an override that throws
           Qest |-> 0,             \* the Qagg the planning loop estimated from
           fn |-> NoFn,            \* the override the planning loop used (NoFn = none)
           prevFn |-> NoFn,        \* the same of the tick before
           finalized |-> FALSE,    \* the tick ran in a session finalised before it
           nudges |-> {},          \* what the feedback term added to a, per consumer
           reacts |-> {}]          \* the reaction factors of the consumers

initSimulation000 ==
  \E ci \in {g \in [SeqSet(Consumers) ->
                        UNION {ConsumerInitDraws(id) : id \in SeqSet(Consumers)}] :
               \A id \in SeqSet(Consumers) : g[id] \in ConsumerInitDraws(id)},
     fi \in {g \in [FirmIds -> UNION {FirmInitDraws(id) : id \in FirmIds}] :
               \A id \in FirmIds : g[id] \in FirmInitDraws(id)},
     u \in CalibDraws :
    LET cs == [c \in SeqSet(Consumers) |-> initConsumer(ci[c])]
        fs == [f \in FirmIds |-> initFirm000(LevelOf(f), fi[f])]
        p == calibrate000(0, P0, cs, fs, u)
    IN /\ t = 0
       /\ price = p
       /\ consumers = cs
       /\ firms = fs
       /\ orders = <<>>
       /\ nextOid = 1
       /\ innovations = <<>>
       /\ point = [NoPoint EXCEPT !.price = p]
       /\ series = [NoSeries EXCEPT !.len = 1]
       /\ logs = NoLogs
       /\ tickInfo = [NoTick EXCEPT !.prevPrice = p, !.priceInForce = p]
       /\ userDemandFn = NoFn

-----------------------------------------------------------------------------
(* part_000: simTick (lines 562-796) *)

NoFirst == [consumers |-> << >>, firms |-> << >>, price |-> 0]
\* what finalizeSession reported: the tick count and the ticks its records span
NoStats == [ticks |-> 0, first |-> 0, last |-> 0]
StartCtl == [running |-> TRUE, finished |-> FALSE, finalized |-> FALSE, surveys |-> 0,
             inits |-> 0, afterRun |-> FALSE, first |-> NoFirst, stats |-> NoStats]

\* ctl after a call of initSimulation from the UI
reinitialised ==
  [ctl EXCEPT !.inits = @ + 1, !.afterRun = (t > 0),
              !.first = IF ctl.inits = 0
                        THEN [consumers |-> consumers', firms |-> firms', price |-> price']
                        ELSE @]

\* variant of ticking: an interval that is never cleared
tickingAlways == TRUE

\* the interval of lines 805-818 / 622-634 exists while running && !finished
ticking == ctl.running /\ ~ctl.finished

\* the pushes of "innovation_adopted" of one tick: one per innovation adopted in it
adoptionLogs(inn, now) ==
  Cardinality({k \in DOMAIN inn : inn[k].adopted /\ inn[k].adoptedAt = now})

\* part_000 line 795: if (s.logs.length > 5000) s.logs = s.logs.slice(-2000)
trimLogs(lg, pushed) ==
  IF lg.len + pushed > LogCap
    THEN [len |-> LogKeep, dropped |-> lg.dropped + (lg.len + pushed - LogKeep)]
  ELSE [lg EXCEPT !.len = @ + pushed]

\* lines 788-792: next = prev.concat(point); next.splice(0, next.length - historyLen)
\* when next.length > historyLen, with the historyLen of the running closure
appendPoint(sr, now, keep) ==
  IF sr.len + 1 > keep
    THEN [sr EXCEPT !.len = keep, !.first = @ + (sr.len + 1 - keep), !.last = now]
  ELSE [sr EXCEPT !.len = @ + 1, !.last = now]

\* the due orders that may escalate in this tick, each with its own draws
DueParents(ords, now) ==
  {ords[i].id : i \in {j \in DOMAIN ords :
     ~ords[j].filled /\ ords[j].due <= now /\ ords[j].level = "PBC->PFP"}}

simTick000 ==
  /\ variant = "part_000"
  /\ ticking
  /\ t < TickBound
  /\ \E cd \in [SeqSet(Consumers) -> ConsumerDraws],
        pd \in [SeqSet(PBCs) -> PlanDraws],
        prm \in [SeqSet(PMPs) -> ProdDrawsPMP],
        prf \in [SeqSet(PFPs) -> ProdDrawsPFP],
        iv \in InnovDraws,
        now \in {t + 1},
        prevPrice \in {price},
        p1 \in {manualOverride(priceMode, price, manualPrice)} :
     \E cl \in {consumersLoop000(Consumers, consumers, now, prevPrice, p1, phaseIdx, cd)},
        sumA \in {Max(1, sumWeights000(PBCs, firms))} :
     \E st1 \in {planning000(PBCs, [firms |-> firms, orders |-> orders, nextOid |-> nextOid,
                                     nlogs |-> 0],
                              now, userDemandFn, cl.Qagg, p1, sumA, pd)} :
     \E st2 \in {[st1 EXCEPT !.firms = produce000(PFPs, produce000(PMPs, @, prm), prf)]} :
     \E esc \in [DueParents(st2.orders, now) -> EscDraws] :
     \E st3 \in {processOrders000(DueIds(st2.orders, now), st2, now, esc)} :
     \E sv \in {serve000(PBCs, st3.firms)} :
     \E p2 \in {priceAdjust000(priceMode, p1, cl.Qagg, sv.Qserved)},
        ad \in {adopt000(1, schedule000(innovations, now, iv), sv.firms, now)} :
       /\ Len(st3.orders) <= OrdersBound
       /\ Len(ad.innovations) <= InnovBound
       /\ t' = now
       /\ price' = p2
       /\ consumers' = cl.consumers
       /\ firms' = ad.firms
       /\ orders' = st3.orders
       /\ nextOid' = st3.nextOid
       /\ innovations' = ad.innovations
       /\ point' = [t |-> now, price |-> toFixed4(p2), qDemand |-> cl.Qagg,
                    qServed |-> sv.Qserved,
                    efficiency |-> Round(sv.Qserved * 1000, Max(10, cl.Qagg))]
       /\ tickInfo' = [prevPrice |-> prevPrice, priceInForce |-> p1, Qagg |-> cl.Qagg,
                       Qserved |-> sv.Qserved, Qprod |-> sv.Qserved, mode |-> priceMode,
                       manual |-> manualPrice, completed |-> TRUE,
                       thrownAt |-> "none", badEval |-> FALSE,
                       Qest |-> cl.Qagg, fn |-> userDemandFn, prevFn |-> tickInfo.fn,
                       finalized |-> ctl.finalized,
                       nudges |-> cl.nudges, reacts |-> cl.reacts]
       /\ series' = appendPoint(series, now, hist.captured)
       /\ logs' = trimLogs(logs, st3.nlogs + adoptionLogs(ad.innovations, now))
  /\ UNCHANGED <<variant, scenario, cfg, nInputs, ctl, hist, priceMode, mode, manualPrice,
                 userDemandFn, phaseIdx>>

-----------------------------------------------------------------------------
(* UI inputs of part_000 *)

engineVars == <<variant, scenario, cfg, t, price, consumers, firms, orders, nextOid,
                innovations, point, tickInfo, logs>>

\* a change of running, priceMode, manualPrice, phaseIdx, userDemandFn or finished
\* re-runs the effect of lines 805-818: the new interval calls the simTick of the
\* current render
\* variant of clearInterval that leaves the interval running
clearNothing(timers, own) == timers

\* the cleanup of the interval effect: clearInterval(id) stops the interval the
\* run of the effect it belongs to had started; clearInterval(null) does nothing
clearInterval(timers, own) == IF own THEN timers - 1 ELSE timers

\* one run of the interval effect after a render that changed a dependency: the
\* cleanup of the run before, then setInterval if running && !finished; the new
\* closure captures the historyLen of this render
intervalEffect(h, run) ==
  LET left == clearInterval(h.timers, h.own)
  IN [h EXCEPT !.timers = IF run THEN left + 1 ELSE left,
               !.own = run,
               !.captured = h.historyLen]

\* part_000: every input that changes a dependency of the effect (line 818)
newInterval == hist' = intervalEffect(hist, ctl'.running /\ ~ctl'.finished)

\* part_001: the effect runs again when running, mode or finished changed (line 634)
newInterval001 ==
  hist' = IF <<ctl'.running, ctl'.finished, mode'>> # <<ctl.running, ctl.finished, mode>>
          THEN intervalEffect(hist, ctl'.running /\ ~ctl'.finished)
          ELSE hist

\* the positions of the speed slider (part_000 lines 1005-1012), in ms per tick
TickSpeeds == {200, TickMs000, 2000}

\* the state of the interval after the mount: one interval, running
StartHist ==
  [historyLen |-> HistoryLen0, captured |-> HistoryLen0, timers |-> 1, own |-> TRUE,
   tickMs |-> IF variant = "part_000" THEN TickMs000 ELSE TickMs001]

input == nInputs < InputBound /\ nInputs' = nInputs + 1

\* the price-mode radio buttons (part_000 lines 1018, 1026)
setPriceMode ==
  /\ variant = "part_000" /\ scenario = "price" /\ input
  /\ \E m \in {"auto", "manual"} : m # priceMode /\ priceMode' = m
  /\ UNCHANGED <<engineVars, series, ctl, mode, manualPrice, userDemandFn, phaseIdx>>
  /\ newInterval

\* the manual price input, shown in manual mode only (part_000 lines 1031-1041)
setManualPrice ==
  /\ variant = "part_000" /\ scenario = "price" /\ input
  /\ priceMode = "manual"
  /\ \E v \in ManualPrices : v # manualPrice /\ manualPrice' = v
  /\ UNCHANGED <<engineVars, series, ctl, priceMode, mode, userDemandFn, phaseIdx>>
  /\ newInterval

\* applyEditorDemand (part_000 lines 821-830)
applyEditorDemand ==
  /\ variant = "part_000" /\ scenario \in {"ledger", "floor", "price"} /\ input
  /\ \E fn \in EditorFns : fn # userDemandFn /\ userDemandFn' = fn
  /\ UNCHANGED <<engineVars, series, ctl, priceMode, mode, manualPrice, phaseIdx>>
  /\ newInterval

\* revertToAuto (part_000 lines 831-835)
revertToAuto ==
  /\ variant = "part_000" /\ scenario = "price" /\ input
  /\ userDemandFn # NoFn
  /\ userDemandFn' = NoFn
  /\ UNCHANGED <<engineVars, series, ctl, priceMode, mode, manualPrice, phaseIdx>>
  /\ newInterval

\* the phase buttons (part_000 line 1063)
setPhaseIdx ==
  /\ variant = "part_000" /\ scenario = "price" /\ input
  /\ \E i \in Phases : i # phaseIdx /\ phaseIdx' = i
  /\ UNCHANGED <<engineVars, series, ctl, priceMode, mode, manualPrice, userDemandFn>>
  /\ newInterval

\* the Pausar / Reanudar button (part_000 line 988)
toggleRunning ==
  /\ variant = "part_000" /\ scenario \in {"window", "control"} /\ input
  /\ ctl' = [ctl EXCEPT !.running = ~@]
  /\ UNCHANGED <<engineVars, series, priceMode, mode, manualPrice, userDemandFn, phaseIdx>>
  /\ newInterval

\* variant of the statistics taken over every tick since the first
finalStatsAll(data) == [ticks |-> data.last, first |-> Min(1, data.last), last |-> data.last]

\* const data = [...seriesData]; stats.ticks = data.length, and every mean, variance
\* and sum runs over data (part_000 lines 878-901)
finalStats(data) == [ticks |-> data.len, first |-> data.first, last |-> data.last]

\* finalizeSession (part_000 lines 874-912)
finalizeSession ==
  /\ variant = "part_000" /\ scenario \in {"control", "final"} /\ input
  /\ ctl' = [ctl EXCEPT !.running = FALSE, !.finished = TRUE, !.finalized = TRUE,
                        !.stats = finalStats(series)]
  /\ UNCHANGED <<engineVars, series, priceMode, mode, manualPrice, userDemandFn, phaseIdx>>
  /\ newInterval

\* the speed slider (part_000 lines 1005-1012): setTickMs
setTickMs ==
  /\ variant = "part_000" /\ input
  /\ scenario = "control" \/ (scenario = "final" /\ t = 0)
  /\ UNCHANGED <<engineVars, series, ctl, priceMode, mode, manualPrice, userDemandFn,
                 phaseIdx>>
  /\ \E ms \in TickSpeeds :
       /\ ms # hist.tickMs
       /\ hist' = [intervalEffect(hist, ctl'.running /\ ~ctl'.finished) EXCEPT !.tickMs = ms]

\* the two history buttons (part_000 lines 1100-1113); historyLen is not among the
\* dependencies of the interval effect
setHistoryLen ==
  /\ variant = "part_000" /\ input
  /\ scenario = "window" \/ (scenario = "final" /\ t = 0)
  /\ \E h \in {Max(HistoryMin, hist.historyLen - HistoryStep),
                Min(HistoryMax, hist.historyLen + HistoryStep)} :
       /\ h # hist.historyLen
       /\ hist' = [hist EXCEPT !.historyLen = h]
  /\ UNCHANGED <<engineVars, series, ctl, priceMode, mode, manualPrice, userDemandFn, phaseIdx>>

\* the button "Encuesta OLS" (part_000 lines 1180-1184): olsSurvey(40) reads
\* s.consumers and draws from s.rng (lines 940-954); its result goes to an alert
olsSurvey ==
  /\ variant = "part_000" /\ scenario = "control" /\ input
  /\ ctl' = [ctl EXCEPT !.surveys = @ + 1]
  /\ UNCHANGED <<engineVars, series, hist, priceMode, mode, manualPrice, userDemandFn,
                 phaseIdx>>

-----------------------------------------------------------------------------
(* part_001: initSimulation (lines 185-324) *)

present(ids, f) == SelectSeq(ids, LAMBDA id : id \in DOMAIN f)

\* firms of part_001; only the PBC objects are created with an innovations array
initFirm001(level, u) ==
  IF level = "PBC"
    THEN Firm(level, randRange(60, 140, u.A), 10, randRange(2000, 12000, u.cost), 0, TRUE)
  ELSE IF level = "PFP"
    THEN Firm(level, randRange(60, 140, u.A), randRange(100, 500, u.capacity),
              randRange(1000, 8000, u.cost), 0, FALSE)
  ELSE Firm(level, randRange(60, 140, u.A), randRange(200, 1000, u.capacity),
            randRange(500, 6000, u.cost), 0, FALSE)

RECURSIVE sumA001(_, _)
sumA001(ids, fs) == IF ids = <<>> THEN 0 ELSE fs[Head(ids)].A + sumA001(Tail(ids), fs)

\* variant of calibrate001 that carries the plan and the history of the replaced
\* firms over
calibrateCarry(fs, QaggConsumers) ==
  [id \in DOMAIN fs |->
     IF id \in DOMAIN firms
       THEN [fs[id] EXCEPT !.planned = firms[id].planned, !.nHistory = firms[id].nHistory]
     ELSE fs[id]]

\* lines 292-311: PBC capacity from the aggregate demand at p0, initial stocks
calibrate001(fs, QaggConsumers) ==
  LET totalA == IF sumA001(PBCs, fs) = 0 THEN 100 ELSE sumA001(PBCs, fs)
  IN [id \in DOMAIN fs |->
        IF fs[id].level = "PBC"
          THEN LET cap == Max(1, (QaggConsumers * fs[id].A) \div (totalA * Len(PBCs)))
               IN [fs[id] EXCEPT !.capacity = cap, !.inventory = cap]
        ELSE IF fs[id].level = "PFP"
          THEN [fs[id] EXCEPT !.inventory = fs[id].capacity \div 2]
        ELSE [fs[id] EXCEPT !.inventory = (fs[id].capacity * 7) \div 10]]

initSimulation001 ==
  \E ci \in {g \in [SeqSet(Consumers) ->
                        UNION {ConsumerInitDraws(id) : id \in SeqSet(Consumers)}] :
               \A id \in SeqSet(Consumers) : g[id] \in ConsumerInitDraws(id)},
     fi \in {g \in [FirmIds -> UNION {FirmInitDraws(id) : id \in FirmIds}] :
               \A id \in FirmIds : g[id] \in FirmInitDraws(id)},
     u \in CalibDraws :
    LET cs == [c \in SeqSet(Consumers) |-> initConsumer(ci[c])]
        Q == sumDemand(Consumers, cs, P0, u)
        fs == calibrate001([f \in FirmIds |-> initFirm001(LevelOf(f), fi[f])], Q)
    IN /\ t' = 0
       /\ price' = P0
       /\ consumers' = cs
       /\ firms' = fs
       /\ orders' = <<>>
       /\ nextOid' = 1
       /\ innovations' = <<>>
       /\ point' = [t |-> 0, price |-> P0, qDemand |-> Q, qServed |-> Q, efficiency |-> 1000]
       /\ series' = [NoSeries EXCEPT !.len = 1, !.sumQopt = Q]
       /\ logs' = NoLogs
       /\ tickInfo' = [NoTick EXCEPT !.prevPrice = P0, !.priceInForce = P0]
       /\ userDemandFn' = NoFn

-----------------------------------------------------------------------------
(* part_001: simTick (lines 364-617) *)

RECURSIVE consumersLoop001(_, _, _, _, _)
\* step 1: the scheduled update and the demand of every consumer
consumersLoop001(ids, cs, now, p, cd) ==
  IF ids = <<>> THEN [consumers |-> cs, Qagg |-> 0]
  ELSE Only({ Only({ [consumers |-> rest.consumers,
                       Qagg |-> computeConsumerDemand(c1, p, cd[Head(ids)].noise) + rest.Qagg] :
                       rest \in {consumersLoop001(Tail(ids), [cs EXCEPT ![Head(ids)] = c1],
                                                  now, p, cd)} }) :
                c1 \in {IF now >= cs[Head(ids)].nextUpdateAt
                          THEN scheduledUpdate(cs[Head(ids)], now, cd[Head(ids)], 100, 50)
                        ELSE cs[Head(ids)]} })

RECURSIVE sumWeights001(_, _)
sumWeights001(ids, fs) ==
  IF ids = <<>> THEN 0
  ELSE fs[Head(ids)].A * fs[Head(ids)].capacity + sumWeights001(Tail(ids), fs)

\* a function built by parseLatexToFunc whose body names something undefined: new
\* Function accepts it and every call throws a ReferenceError
ThrowingFn == [type |-> "throws", A |-> 0, B |-> 0]

\* the planning loop would call such a function (line 408: user mode, function set)
throws001(md, fn) == md = "user" /\ fn = ThrowingFn

\* the functions applyUserDemand can install
UserFns == EditorFns \cup {ThrowingFn}

\* variant of perceivedFn001 that uses the estimator in every mode
perceivedFnNoise(md, fn, Qagg, p, u) == (Qagg * (800 + (400 * u) \div 1000)) \div 1000

\* pbcPerceivedFn(s.price): the user's function in user mode, else Qagg * (0.8 + 0.4 * rng())
perceivedFn001(md, fn, Qagg, p, u) ==
  IF md = "user" /\ fn # NoFn THEN createDemandFn(fn, p)
  ELSE (Qagg * (800 + (400 * u) \div 1000)) \div 1000

\* the plan of one PBC firm and its order to a PFP; d = [perceived, pick, delay]
plan001(id, st, now, md, fn, Qagg, p, sumAcap, d) ==
  LET f == st.firms[id]
      perceived == perceivedFn001(md, fn, Qagg, p, d.perceived)
      plan == (perceived * (f.A * f.capacity)) \div sumAcap
      needed == Max(0, plan - f.inventory)
      pfps == present(PFPs, st.firms)
      delay == roundRange(5, 15, d.delay)
      st1 == [st EXCEPT !.firms[id].planned = plan, !.firms[id].perceived = perceived]
  IN IF plan > f.inventory /\ Len(pfps) > 0
     THEN [st1 EXCEPT !.orders = Append(@, Order(st.nextOid, "PBC->PFP", id,
                                                pfps[pickIndex(Len(pfps), d.pick)],
                                                needed, now + delay, 0, now)),
                      !.nextOid = @ + 1]
     ELSE st1

RECURSIVE planning001(_, _, _, _, _, _, _, _, _)
planning001(ids, st, now, md, fn, Qagg, p, sumAcap, pd) ==
  IF ids = <<>> THEN st
  ELSE Only({ planning001(Tail(ids), st2, now, md, fn, Qagg, p, sumAcap, pd) :
                st2 \in {plan001(Head(ids), st, now, md, fn, Qagg, p, sumAcap,
                                 pd[Head(ids)])} })

\* a due PBC->PFP order (lines 440-469)
resolvePbcPfp001(st, i, now, e) ==
  LET ord == st.orders[i]
      pfp == st.firms[ord.to]
      pmps == present(PMPs, st.firms)
  IN IF pfp.inventory >= ord.amount
     THEN pushLog(deliver(st, i, ord.to, ord.from, ord.amount))
     ELSE IF Len(pmps) > 0
     THEN [st EXCEPT !.orders = Append(@, Order(st.nextOid, "PFP->PMP", ord.to,
                                                pmps[pickIndex(Len(pmps), e.pick)],
                                                Max(0, ord.amount - pfp.inventory),
                                                now + roundRange(5, 20, e.delay),
                                                ord.id, now)),
                     !.nextOid = @ + 1]
     ELSE st

\* lines 493-509: the waiting parent is handed over unless it is already filled
cascade001(st, ord) ==
  IF ord.orig = 0 \/ ~HasOrder(st.orders, ord.orig) THEN st
  ELSE LET j == OrderIdx(st.orders, ord.orig)
           orig == st.orders[j]
       IN IF ~orig.filled /\ st.firms[orig.to].inventory >= orig.amount
          THEN pushLog(deliver(st, j, orig.to, orig.from, orig.amount))
          ELSE st

\* a due PFP->PMP order (lines 470-509): the PMP supplies what it has
resolvePfpPmp001(st, i, now, e) ==
  LET ord == st.orders[i]
      supplied == Min(ord.amount, st.firms[ord.to].inventory)
      st1 == [st EXCEPT !.firms[ord.to].inventory = @ - supplied,
                        !.firms[ord.from].inventory = @ + supplied,
                        !.orders[i].filled = (supplied >= ord.amount),
                        !.orders[i].delivered = @ + supplied,
                        !.orders[i].fills = @ + 1]
  IN Only({ observeCascade(st2, cascade001(st2, ord), i) :
              st2 \in {IF supplied < ord.amount
                       THEN [pushLog(st1) EXCEPT
                               !.orders = Append(@, Order(st.nextOid, "EXTERNAL->PMP",
                                                          "external", ord.to,
                                                          ord.amount - supplied,
                                                          now + roundRange(10, 25, e.replenish),
                                                          0, now)),
                               !.nextOid = @ + 1]
                       ELSE st1} })

\* a due EXTERNAL->PMP arrival (lines 510-518)
resolveExternal001(st, i) ==
  [st EXCEPT !.firms[st.orders[i].to].inventory = @ + st.orders[i].amount,
             !.orders[i].filled = TRUE,
             !.orders[i].delivered = @ + st.orders[i].amount,
             !.orders[i].fills = @ + 1]

RECURSIVE processOrders001(_, _, _, _)
processOrders001(ids, st, now, esc) ==
  IF ids = <<>> THEN st
  ELSE Only({ processOrders001(Tail(ids), st1, now, esc) :
                st1 \in {LET i == OrderIdx(st.orders, Head(ids))
                              ord == st.orders[i]
                          IN IF ord.level = "PBC->PFP"
                               THEN resolvePbcPfp001(st, i, now, esc[ord.id])
                             ELSE IF ord.level = "PFP->PMP"
                               THEN resolvePfpPmp001(st, i, now, esc[ord.id])
                             ELSE IF ord.level = "EXTERNAL->PMP" THEN resolveExternal001(st, i)
                             ELSE st} })

RECURSIVE sumQd001(_, _, _, _)
\* lines 543-546: the demand at the price in force, with fresh noise draws
sumQd001(ids, cs, p, cd) ==
  IF ids = <<>> THEN 0
  ELSE computeConsumerDemand(cs[Head(ids)], p, cd[Head(ids)].noise2)
         + sumQd001(Tail(ids), cs, p, cd)

\* lines 525-526: Math.max(0, Math.min(f.planned, f.inventory + f.capacity))
served001(f) == Max(0, Min(f.planned, f.inventory + f.capacity))

RECURSIVE serve001(_, _)
serve001(ids, fs) ==
  IF ids = <<>> THEN [firms |-> fs, Qserved |-> 0]
  ELSE Only({ Only({ [firms |-> rest.firms, Qserved |-> produced + rest.Qserved] :
                       rest \in {serve001(Tail(ids),
                                          [fs EXCEPT ![Head(ids)].invBefore = fs[Head(ids)].inventory,
                                                     ![Head(ids)].inventory =
                                                        @ - Min(fs[Head(ids)].inventory, produced),
                                                     ![Head(ids)].produced = produced,
                                                     ![Head(ids)].nHistory = @ + 1])} }) :
                produced \in {served001(fs[Head(ids)])} })

\* lines 555-557
priceAdjust001(p, Qd, Qserved) ==
  Max(PMin, p + (((p * GainPct) \div 100) * (IF Qd = 0 THEN 0 ELSE Qd - Qserved))
                  \div Max(1, Qd))

\* f.marginalCost *= innov.costMul
adoptCost001(mc, costMul) == (mc * costMul) \div 100

RECURSIVE adoptFirm001(_, _, _, _, _)
\* the adoption loop of one firm over its own innovations
adoptFirm001(k, id, inn, fs, now) ==
  IF k > Len(inn) THEN [innovations |-> inn, firms |-> fs]
  ELSE IF inn[k].firm = id /\ adoptable(inn[k], now)
  THEN Only({ adoptFirm001(k + 1, id, inn1, fs1, now) :
                inn1 \in {[inn EXCEPT ![k].adopted = TRUE, ![k].adoptedAt = now,
                                      ![k].applied = @ + 1]},
                fs1 \in {[fs EXCEPT ![id].marginalCost = adoptCost001(@, inn[k].costMul),
                                    ![id].A = (@ * inn[k].tfpMul) \div 100]} })
  ELSE adoptFirm001(k + 1, id, inn, fs, now)

RECURSIVE innovations001(_, _, _, _, _)
\* step 6 (lines 559-580) over PBC, PFP, PMP in that order; a firm object without
\* an innovations array makes f.innovations.push / .filter throw a TypeError,
\* which ends simTick there
innovations001(ids, inn, fs, now, iv) ==
  IF ids = <<>> THEN [innovations |-> inn, firms |-> fs, thrown |-> FALSE]
  ELSE LET id == Head(ids)
       IN IF ~fs[id].hasInnovations
          THEN [innovations |-> inn, firms |-> fs, thrown |-> TRUE]
          ELSE Only({ innovations001(Tail(ids), ad.innovations, ad.firms, now, iv) :
                        ad \in {adoptFirm001(1, id,
                                   IF iv[id].roll < ProbPerTick001
                                     THEN Append(inn, Innovation(id, fs[id].level,
                                                   randRange(92, 99, iv[id].cost),
                                                   randRange(102, 125, iv[id].tfp),
                                                   now, roundRange(10, 60, iv[id].adopt)))
                                   ELSE inn,
                                   fs, now)} })

\* the due orders of this tick, each with its own draws
DueEscalating(ords, now) ==
  {ords[i].id : i \in {j \in DOMAIN ords : ~ords[j].filled /\ ords[j].due <= now}}

simTick001 ==
  /\ variant = "part_001"
  /\ ticking
  /\ t < TickBound
  /\ \E cd \in [DOMAIN consumers -> ConsumerDraws],
        pd \in [SeqSet(present(PBCs, firms)) -> PlanDraws],
        iv \in {g \in [DOMAIN firms -> InnovDraws] :
                  \A id \in DOMAIN firms : ~firms[id].hasInnovations => g[id] = NoInnov},
        now \in {t + 1},
        cids \in {present(Consumers, consumers)},
        pbcs \in {present(PBCs, firms)} :
     \E cl \in {consumersLoop001(cids, consumers, now, price, cd)} :
     IF throws001(mode, userDemandFn) /\ pbcs # <<>>
     THEN \* line 419: the call of pbcPerceivedFn throws in the first pass of the PBC loop
       /\ t' = now
       /\ consumers' = cl.consumers
       /\ tickInfo' = [prevPrice |-> price, priceInForce |-> price, Qagg |-> cl.Qagg,
                       Qserved |-> 0, Qprod |-> 0, mode |-> "auto", manual |-> 0,
                       completed |-> FALSE, thrownAt |-> "planning", badEval |-> TRUE,
                       Qest |-> cl.Qagg, fn |-> userDemandFn, prevFn |-> tickInfo.fn,
                       finalized |-> ctl.finalized, nudges |-> {}, reacts |-> {}]
       /\ UNCHANGED <<price, firms, orders, nextOid, innovations, point, series, logs>>
     ELSE
     \E sumAcap \in {IF sumWeights001(pbcs, firms) = 0 THEN 1
                     ELSE sumWeights001(pbcs, firms)} :
     \E st1 \in {planning001(pbcs, [firms |-> firms, orders |-> orders, nextOid |-> nextOid,
                                     nlogs |-> 0],
                              now, mode, userDemandFn, cl.Qagg, price, sumAcap, pd)} :
     \E esc \in [DueEscalating(st1.orders, now) -> EscDraws] :
     \E st3 \in {processOrders001(DueIds(st1.orders, now), st1, now, esc)} :
     \E sv \in {serve001(pbcs, st3.firms)},
        Qd \in {sumQd001(cids, cl.consumers, price, cd)} :
     \E served \in {Min(sv.Qserved, Qd)},
        p2 \in {priceAdjust001(price, Qd, sv.Qserved)},
        inv \in {innovations001(pbcs \o present(PFPs, firms) \o present(PMPs, firms),
                                innovations, sv.firms, now, iv)} :
     \E sumQopt \in {series.sumQopt + Qd},
        sumAbs \in {series.sumAbs + Abs(served - Qd)},
        pushed \in {st3.nlogs + (Len(inv.innovations) - Len(innovations))
                      + adoptionLogs(inv.innovations, now)} :
       /\ Len(st3.orders) <= OrdersBound
       /\ Len(inv.innovations) <= InnovBound
       /\ t' = now
       /\ price' = p2
       /\ consumers' = cl.consumers
       /\ firms' = inv.firms
       /\ nextOid' = st3.nextOid
       /\ innovations' = inv.innovations
       /\ tickInfo' = [prevPrice |-> price, priceInForce |-> price, Qagg |-> Qd,
                       Qserved |-> served, Qprod |-> sv.Qserved, mode |-> "auto",
                       manual |-> 0, completed |-> ~inv.thrown,
                       thrownAt |-> IF inv.thrown THEN "innovations" ELSE "none",
                       badEval |-> FALSE,
                       Qest |-> cl.Qagg,
                       fn |-> IF mode = "user" THEN userDemandFn ELSE NoFn,
                       prevFn |-> tickInfo.fn,
                       finalized |-> ctl.finalized, nudges |-> {}, reacts |-> {}]
       /\ IF inv.thrown
          THEN /\ orders' = st3.orders
               /\ logs' = [logs EXCEPT !.len = @ + pushed]
               /\ UNCHANGED <<point, series>>
          ELSE /\ orders' = SelectSeq(st3.orders, LAMBDA o : ~o.filled)
               /\ point' = [t |-> now, price |-> p2, qDemand |-> Qd, qServed |-> served,
                            efficiency |-> 1000 - (1000 * sumAbs)
                                             \div (IF sumQopt = 0 THEN 1 ELSE sumQopt)]
               /\ logs' = [logs EXCEPT !.len = @ + pushed + 1]
               /\ series' = [len |-> Min(SeriesCap, series.len + 1),
                             first |-> IF series.len + 1 > SeriesCap THEN series.first + 1
                                       ELSE series.first,
                             last |-> now,
                             sumQopt |-> sumQopt, sumAbs |-> sumAbs]
  /\ UNCHANGED <<variant, scenario, cfg, nInputs, ctl, hist, priceMode, mode, manualPrice,
                 userDemandFn, phaseIdx>>

-----------------------------------------------------------------------------
(* UI inputs of part_001 *)

\* handleReset (lines 675-678)
handleReset ==
  /\ variant = "part_001" /\ input
  /\ initSimulation001
  /\ ctl' = [reinitialised EXCEPT !.finished = FALSE, !.finalized = FALSE]
  /\ UNCHANGED <<variant, scenario, cfg, priceMode, mode, manualPrice, phaseIdx>>
  /\ newInterval001

\* the button "Inicializar con seed" (line 759): initSimulation alone
initWithSeed ==
  /\ variant = "part_001" /\ scenario = "control1" /\ input
  /\ initSimulation001
  /\ ctl' = [reinitialised EXCEPT !.finalized = FALSE]
  /\ UNCHANGED <<variant, scenario, cfg, hist, priceMode, mode, manualPrice, phaseIdx>>

\* the survey button (lines 798-801): runSurvey(30) samples s.consumers, which
\* throws on the first sample when there is no consumer (computeConsumerDemand of
\* undefined), and otherwise pushes a "survey" entry to s.logs (line 667)
runSurvey ==
  /\ variant = "part_001" /\ scenario = "control1" /\ input
  /\ ctl' = [ctl EXCEPT !.surveys = @ + 1]
  /\ logs' = IF DOMAIN consumers = {} THEN logs ELSE [logs EXCEPT !.len = @ + 1]
  /\ UNCHANGED <<variant, scenario, cfg, t, price, consumers, firms, orders, nextOid,
                 innovations, point, tickInfo, series, hist, priceMode, mode, manualPrice,
                 userDemandFn, phaseIdx>>

\* the buttons Ejecutar and Pausar (lines 740, 743)
setRunning ==
  /\ variant = "part_001" /\ scenario = "control1" /\ input
  /\ \E r \in BOOLEAN : r # ctl.running /\ ctl' = [ctl EXCEPT !.running = r]
  /\ UNCHANGED <<engineVars, series, priceMode, mode, manualPrice, userDemandFn, phaseIdx>>
  /\ newInterval001

\* handleFinalize (lines 683-686)
handleFinalize ==
  /\ variant = "part_001" /\ scenario = "control1" /\ input
  /\ ctl' = [ctl EXCEPT !.running = FALSE, !.finished = TRUE, !.finalized = TRUE]
  /\ UNCHANGED <<engineVars, series, priceMode, mode, manualPrice, userDemandFn, phaseIdx>>
  /\ newInterval001

\* the button "Cerrar" of the closing dialog (line 899): setFinished(false)
closeFinal ==
  /\ variant = "part_001" /\ scenario = "control1" /\ input
  /\ ctl.finished
  /\ ctl' = [ctl EXCEPT !.finished = FALSE]
  /\ UNCHANGED <<engineVars, series, priceMode, mode, manualPrice, userDemandFn, phaseIdx>>
  /\ newInterval001

\* the mode radio buttons
setMode ==
  /\ variant = "part_001" /\ scenario = "user" /\ input
  /\ \E m \in {"auto", "user"} : m # mode /\ mode' = m
  /\ UNCHANGED <<engineVars, series, ctl, priceMode, manualPrice, userDemandFn, phaseIdx>>
  /\ newInterval001

\* applyUserDemand (lines 352-359)
applyUserDemand ==
  /\ variant = "part_001" /\ scenario = "user" /\ input
  /\ \E fn \in UserFns : userDemandFn' = fn
  /\ mode' = "user"
  /\ logs' = [logs EXCEPT !.len = @ + 1]
  /\ UNCHANGED <<variant, scenario, cfg, t, price, consumers, firms, orders, nextOid,
                 innovations, point, tickInfo, series, ctl, priceMode, manualPrice,
                 phaseIdx>>
  /\ newInterval001

-----------------------------------------------------------------------------
\* part_000 mounts and runs initSimulation(seed) before the first tick (lines 799-802)
Init000 ==
  /\ variant = "part_000"
  /\ scenario \in Scenarios000
  /\ cfg = ModelConfig
  /\ initSimulation000
  /\ ctl = [StartCtl EXCEPT !.inits = 1,
                            !.first = [consumers |-> consumers, firms |-> firms,
                                       price |-> price]]

\* part_001 mounts with the simRef placeholder of lines 154-177: its rng is set,
\* so the effect of line 623 does not call initSimulation
Init001 ==
  /\ variant = "part_001"
  /\ scenario \in Scenarios001
  /\ cfg = ModelConfig
  /\ t = 0
  /\ price = P0
  /\ consumers = << >>
  /\ firms = << >>
  /\ orders = << >>
  /\ nextOid = 1
  /\ innovations = << >>
  /\ point = NoPoint
  /\ series = NoSeries
  /\ logs = NoLogs
  /\ tickInfo = [NoTick EXCEPT !.prevPrice = P0, !.priceInForce = P0]
  /\ userDemandFn = NoFn
  /\ ctl = StartCtl

Init ==
  /\ nInputs = 0
  /\ priceMode = "auto"
  /\ mode = "auto"
  /\ manualPrice = P0
  /\ phaseIdx = 0
  /\ (Init000 \/ Init001)
  /\ hist = StartHist

Next ==
  \/ simTick000
  \/ setPriceMode
  \/ setManualPrice
  \/ applyEditorDemand
  \/ revertToAuto
  \/ setPhaseIdx
  \/ toggleRunning
  \/ finalizeSession
  \/ setHistoryLen
  \/ setTickMs
  \/ olsSurvey
  \/ simTick001
  \/ handleReset
  \/ initWithSeed
  \/ setRunning
  \/ handleFinalize
  \/ closeFinal
  \/ runSurvey
  \/ setMode
  \/ applyUserDemand

Spec == Init /\ [][Next]_vars

-----------------------------------------------------------------------------
(* initSimulation(newSeed, cfgOverride) of part_001 as an operation of its own: *)
(* the mounted component, and one call with a configuration override            *)

\* values of cfgOverride: counts and ranges, well-formed and not
ConfigOverrides ==
  [consumersN : {-5, 0, 3, 10, 12},
   pbcCountRange : {<<1, 1>>, <<1, 2>>, <<2, 1>>, <<-2, -1>>},
   pfpCountRange : {<<1, 1>>, <<1, 2>>, <<2, 1>>, <<-2, -1>>},
   pmpCountRange : {<<1, 1>>, <<1, 0>>}]

InitConfig ==
  /\ nInputs = 0
  /\ priceMode = "auto"
  /\ mode = "auto"
  /\ manualPrice = P0
  /\ phaseIdx = 0
  /\ variant = "part_001"
  /\ scenario = "config"
  /\ cfg \in ConfigOverrides
  /\ t = 0
  /\ price = P0
  /\ consumers = << >>
  /\ firms = << >>
  /\ orders = << >>
  /\ nextOid = 1
  /\ innovations = << >>
  /\ point = NoPoint
  /\ series = NoSeries
  /\ logs = NoLogs
  /\ tickInfo = [NoTick EXCEPT !.prevPrice = P0, !.priceInForce = P0]
  /\ userDemandFn = NoFn
  /\ ctl = StartCtl
  /\ hist = StartHist

\* the call initSimulation(seed, cfgOverride) on the mounted component
initWithOverride ==
  /\ series.len = 0
  /\ initSimulation001
  /\ ctl' = reinitialised
  /\ UNCHANGED <<variant, scenario, cfg, nInputs, hist, priceMode, mode, manualPrice,
                 phaseIdx>>

NextConfig == initWithOverride

SpecConfig == InitConfig /\ [][NextConfig]_vars

-----------------------------------------------------------------------------
(* The calibration loop of initSimulation (part_000 lines 507-518) on a given  *)
(* population: linear consumers of one kind and one Final firm                *)

CalibCounts == {1, MinConsumers, ConsumersN}
CalibA == {600, 1200, 2000}                    \* a = 60, 120, 200
CalibB == {0, 600}                             \* b = 0, 6
CalibCapacities == {1000, 10000, 400000, 410000}   \* capacity = 100, 1000, 40000, 41000
CalibNoise == {0, 500, 999}

InitCalib ==
  /\ nInputs = 0
  /\ priceMode = "auto"
  /\ mode = "auto"
  /\ manualPrice = P0
  /\ phaseIdx = 0
  /\ variant = "part_000"
  /\ scenario = "calib"
  /\ \E n \in CalibCounts :
       cfg = [consumersN |-> n, pbcCountRange |-> <<1, 1>>, pfpCountRange |-> <<1, 1>>,
              pmpCountRange |-> <<1, 1>>]
  /\ \E a \in CalibA, b \in CalibB :
       consumers = [c \in SeqSet(Consumers) |->
                      [type |-> "linear", a |-> a, b |-> b, nextUpdateAt |-> 30,
                       nextChange |-> 0]]
  /\ \E cap \in CalibCapacities :
       firms = [f \in FirmIds |->
                  IF LevelOf(f) = "PBC" THEN Firm("PBC", 100, cap, 2000, 0, FALSE)
                  ELSE initFirm000(LevelOf(f), [A |-> 400, capacity |-> 0, cost |-> 0])]
  /\ t = 0
  /\ price = P0
  /\ orders = << >>
  /\ nextOid = 1
  /\ innovations = << >>
  /\ point = NoPoint
  /\ series = NoSeries
  /\ logs = NoLogs
  /\ tickInfo = [NoTick EXCEPT !.prevPrice = P0, !.priceInForce = P0]
  /\ userDemandFn = NoFn
  /\ ctl = StartCtl
  /\ hist = StartHist

\* lines 507-523: the loop, s.price = p0 and the first point of the series
calibration ==
  /\ series.len = 0
  /\ \E u \in CalibNoise :
       \E p \in {calibrate000(0, P0, consumers, firms, u)} :
         /\ price' = p
         /\ point' = [NoPoint EXCEPT !.price = p]
         /\ tickInfo' = [NoTick EXCEPT !.prevPrice = p, !.priceInForce = p]
  /\ series' = [NoSeries EXCEPT !.len = 1]
  /\ UNCHANGED <<variant, scenario, cfg, nInputs, t, consumers, firms, orders, nextOid,
                 innovations, logs, ctl, hist, priceMode, mode, manualPrice, userDemandFn,
                 phaseIdx>>

NextCalib == calibration

SpecCalib == InitCalib /\ [][NextCalib]_vars

TypeOK == t \in 0..TickBound

-----------------------------------------------------------------------------
(* Properties *)

PBCFirms == {f \in DOMAIN firms : firms[f].level = "PBC"}
Children(id) == {j \in DOMAIN orders : orders[j].orig = id}

CapacityBound ==
  \A f \in PBCFirms :
    firms[f].nHistory > 0 =>
      firms[f].produced <= Min(firms[f].planned, Min(firms[f].invBefore, firms[f].capacity))

\* C5: no Final->Intermediate order is handed over more than once, however many
\* escalated children it has
FilledNeverRefilled ==
  \A i \in DOMAIN orders :
    orders[i].level = "PBC->PFP" =>
      orders[i].fills <= 1 /\ orders[i].delivered <= orders[i].amount

\* C6: a pending Final->Intermediate order none of whose children has been filled
\* has at most one escalated child
SingleEscalation ==
  \A i \in DOMAIN orders :
    (/\ orders[i].level = "PBC->PFP"
     /\ ~orders[i].filled
     /\ \A j \in Children(orders[i].id) : ~orders[j].filled)
    => Cardinality(Children(orders[i].id)) <= 1

\* C7: every order is due strictly after the tick that created it, and no order
\* has received anything before its due tick
DueAfterCreation ==
  \A i \in DOMAIN orders :
    /\ orders[i].due > orders[i].created
    /\ orders[i].fills > 0 => t >= orders[i].due

\* the ledger holds an order of each kind, the external replenishment included
AllOrderKinds ==
  /\ \E i \in DOMAIN orders : orders[i].level = "PBC->PFP"
  /\ \E i \in DOMAIN orders : orders[i].level = "PFP->PMP"
  /\ \E i \in DOMAIN orders : orders[i].level = "EXTERNAL->PMP"

TickStep == t' = t + 1
AdoptedNow(k) == innovations'[k].adopted /\ (k > Len(innovations) \/ ~innovations[k].adopted)
AdoptedNowOf(f) == {k \in DOMAIN innovations' : innovations'[k].firm = f /\ AdoptedNow(k)}
AppliedOnce ==
  \A k \in DOMAIN innovations :
    innovations[k].applied = IF innovations[k].adopted THEN 1 ELSE 0
UnchangedOtherwise(f) ==
  AdoptedNowOf(f) = {} =>
    firms'[f].marginalCost = firms[f].marginalCost /\ firms'[f].A = firms[f].A

\* the firm's parameters after the single adoption k of this tick, with the
\* cost product as it is, or with the 0.01 floor of the engine that has one
MultipliedExactly(f, k) ==
  /\ firms'[f].marginalCost = (firms[f].marginalCost * innovations'[k].costMul) \div 100
  /\ firms'[f].A = (firms[f].A * innovations'[k].tfpMul) \div 100
MultipliedFloored(f, k) ==
  /\ firms'[f].marginalCost =
       IF variant = "part_000"
         THEN Max(MCFloor, (firms[f].marginalCost * innovations'[k].costMul) \div 100)
       ELSE (firms[f].marginalCost * innovations'[k].costMul) \div 100
  /\ firms'[f].A = (firms[f].A * innovations'[k].tfpMul) \div 100

InnovationStateMachine ==
  /\ [](\A k \in DOMAIN innovations :
          /\ innovations[k].adoptAt >= innovations[k].scheduleAt
          /\ innovations[k].adopted => innovations[k].adoptedAt >= innovations[k].adoptAt
          /\ ~innovations[k].adopted => innovations[k].adoptedAt = 0)
  /\ [][TickStep =>
          /\ \A k \in DOMAIN innovations :
               /\ k \in DOMAIN innovations'
               /\ innovations[k].adopted => innovations'[k] = innovations[k]
          /\ \A k \in DOMAIN innovations' \ DOMAIN innovations :
               ~innovations'[k].adopted]_vars

\* an innovation was adopted in an earlier tick and is still adopted
AdoptedEarlier ==
  \E k \in DOMAIN innovations :
    innovations[k].adopted /\ innovations[k].adoptedAt >= innovations[k].adoptAt
      /\ t > innovations[k].adoptedAt

ManualTick == t > 0 /\ tickInfo.mode = "manual"

\* C10 as stated: the price recorded for a manual tick equals max(pMin, v) exactly
ManualPinExact ==
  ManualTick =>
    /\ point.t = t
    /\ point.price = Max(PMin, tickInfo.manual)
    /\ price = Max(PMin, tickInfo.manual)

\* C10 amended: after a manual tick the current price is max(pMin, v), untouched by
\* the automatic adjustment, and the recorded price is that value rounded to four
\* decimals
ManualPinRounded ==
  ManualTick =>
    /\ point.t = t
    /\ point.price = toFixed4(Max(PMin, tickInfo.manual))
    /\ price = Max(PMin, tickInfo.manual)

\* a manual tick with a five-decimal value in which demand and served differ
ManualPinned ==
  /\ ManualTick
  /\ tickInfo.manual = 45004
  /\ tickInfo.Qagg # tickInfo.Qserved

-----------------------------------------------------------------------------
\* the last tick ran its price step in auto mode
AutoTick == t > 0 /\ tickInfo.mode = "auto" /\ tickInfo.thrownAt # "planning"

\* max(pMin, price * (1 + gain * gap)), gap = (demand - served) / max(1, demand),
\* and no change at zero demand
gapPrice(p, demand, served) ==
  Max(PMin, p + (((p * GainPct) \div 100) * (IF demand = 0 THEN 0 ELSE demand - served))
                  \div Max(10, demand))

\* C11: after every auto-mode tick the price is max(pMin, price * (1 + gain * gap)) with
\* gap = (demand - served) / max(1, demand); it has not fallen when served < demand, not
\* risen when served > demand, and is unchanged when demand = served or demand = 0
AutoPriceUpdate ==
  AutoTick =>
    /\ price = gapPrice(tickInfo.priceInForce, tickInfo.Qagg, tickInfo.Qprod)
    /\ tickInfo.Qprod < tickInfo.Qagg => price >= tickInfo.priceInForce
    /\ tickInfo.Qprod > tickInfo.Qagg => price <= tickInfo.priceInForce
    /\ (tickInfo.Qprod = tickInfo.Qagg \/ tickInfo.Qagg = 0) => price = tickInfo.priceInForce

\* an auto tick of either engine in which demand and served differ
AutoPriceMoved == AutoTick /\ tickInfo.Qagg > 0 /\ tickInfo.Qprod # tickInfo.Qagg

\* C12: every tick that has begun has run to completion and has appended the metrics
\* record of its own tick number, so the records number the ticks one by one and the
\* tick counter is never ahead of the last record
TickComplete == tickInfo.completed /\ point.t = t

\* C13: a tick whose planning called an override that throws has treated the call as
\* zero demand (every Final firm plans 0), has completed, and has recorded its point
BadOverrideIsolated ==
  (t > 0 /\ tickInfo.badEval) =>
    /\ tickInfo.completed
    /\ point.t = t
    /\ \A f \in PBCFirms : firms[f].planned = 0

\* a configuration whose counts reach the least population and whose ranges are
\* ordered and non-negative
ValidRange(r) == 0 <= r[1] /\ r[1] <= r[2]
ValidConfig(c) ==
  /\ c.consumersN >= MinConsumers
  /\ ValidRange(c.pbcCountRange) /\ ValidRange(c.pfpCountRange) /\ ValidRange(c.pmpCountRange)

\* C14: under an invalid configuration no simulation state exists: no consumer, no
\* firm, no series entry, before and after the call of initSimulation
ConfigRejected ==
  ~ValidConfig(cfg) => (consumers = << >> /\ firms = << >> /\ series.len = 0)

\* the plan of Final firm f in this tick of part_000 when the perceived demand is q
PlannedFrom(f, q) ==
  firms'[f].planned = (q * weight000(firms[f])) \div Max(1, sumWeights000(PBCs, firms))

\* C15: in every tick of the engine with the override (part_000), while an override is
\* active each Final firm plans override(price in force) times its share, whatever the
\* true demand, and the recorded demand is the consumers' demand of the tick; with the
\* override null each Final firm plans a share of the noisy estimate, between 0.85 and
\* 1.15 times the true demand
OverridePlanning ==
  [][(TickStep /\ variant = "part_000") =>
       /\ point'.qDemand = tickInfo'.Qagg
       /\ \E cd \in [SeqSet(Consumers) -> ConsumerDraws] :
            point'.qDemand = consumersLoop000(Consumers, consumers, t + 1, price,
                                              tickInfo'.priceInForce, phaseIdx, cd).Qagg
       /\ \A f \in SeqSet(PBCs) :
            IF userDemandFn # NoFn
              THEN PlannedFrom(f, createDemandFn(userDemandFn, tickInfo'.priceInForce))
            ELSE \E u \in 0..999 :
                   PlannedFrom(f, (tickInfo'.Qagg * (850 + (300 * u) \div 1000)) \div 1000)]_vars

\* a tick planned under an override was followed, after the revert, by a tick that
\* planned a different quantity
RevertedToAuto ==
  /\ variant = "part_000" /\ t > 1
  /\ tickInfo.prevFn # NoFn /\ tickInfo.fn = NoFn
  /\ \E f \in PBCFirms :
       firms[f].planned > 0
         /\ firms[f].planned # createDemandFn(tickInfo.prevFn, tickInfo.priceInForce)

-----------------------------------------------------------------------------
\* the Final firms that exist, in creation order, and their planning weights
FinalIds == present(PBCs, firms)
weightOf(f) == IF variant = "part_000" THEN weight000(firms[f])
               ELSE firms[f].A * firms[f].capacity
totalWeight == IF variant = "part_000" THEN Max(1, sumWeights000(FinalIds, firms))
               ELSE IF sumWeights001(FinalIds, firms) = 0 THEN 1
               ELSE sumWeights001(FinalIds, firms)

RECURSIVE sumWeightOf(_)
sumWeightOf(ids) == IF ids = <<>> THEN 0 ELSE weightOf(Head(ids)) + sumWeightOf(Tail(ids))

RECURSIVE sumPlanned(_, _)
sumPlanned(ids, fs) ==
  IF ids = <<>> THEN 0 ELSE fs[Head(ids)].planned + sumPlanned(Tail(ids), fs)

\* a tick that ran its planning loop over at least one Final firm
PlanningStep == TickStep /\ tickInfo'.thrownAt # "planning" /\ FinalIds # <<>>

\* the override in force in this tick, NoFn if the estimator is used
ActiveFn == IF variant = "part_000" THEN userDemandFn
            ELSE IF mode = "user" THEN userDemandFn ELSE NoFn

\* the values the perceived demand of this tick can take: the override at the price
\* in force, or the true demand times a factor in [0.85, 1.15] ([0.8, 1.2] in part_001)
PerceivedValues ==
  IF ActiveFn # NoFn THEN {createDemandFn(ActiveFn, tickInfo'.priceInForce)}
  ELSE IF variant = "part_000"
    THEN {(tickInfo'.Qest * (850 + (300 * u) \div 1000)) \div 1000 : u \in 0..999}
  ELSE {(tickInfo'.Qest * (800 + (400 * u) \div 1000)) \div 1000 : u \in 0..999}

\* shares are non-negative and sum to 1: the weights add up to the divisor
SharesSumToOne ==
  /\ \A f \in SeqSet(FinalIds) : weightOf(f) >= 0
  /\ sumWeightOf(FinalIds) = totalWeight

\* firm f planned its share of the perceived value q
PlansShareOf(f, q) == firms'[f].planned = (q * weightOf(f)) \div totalWeight

\* the planned quantities add up to q, short of the fraction each division drops
PlannedSumsTo(q) ==
  /\ sumPlanned(FinalIds, firms') <= q
  /\ sumPlanned(FinalIds, firms') > q - Len(FinalIds)

\* C16 as stated: in every tick the shares sum to 1 and there is one perceived value q
\* of which every Final firm plans its share, so the plans add up to q
SharedPlan ==
  [][PlanningStep =>
       /\ SharesSumToOne
       /\ \E q \in PerceivedValues :
            /\ \A f \in SeqSet(FinalIds) : PlansShareOf(f, q)
            /\ PlannedSumsTo(q)]_vars

\* C16 amended: in every tick the shares sum to 1 and every Final firm plans its share
\* of its own evaluation of the perceived demand; under an active override all the
\* evaluations are the override at the price in force and the plans add up to it
SharedPlanPerFirm ==
  [][PlanningStep =>
       /\ SharesSumToOne
       /\ \A f \in SeqSet(FinalIds) : \E q \in PerceivedValues : PlansShareOf(f, q)
       /\ ActiveFn # NoFn =>
            PlannedSumsTo(createDemandFn(ActiveFn, tickInfo'.priceInForce))]_vars

\* two Final firms have planned in the same tick against different perceived values
PerceivedApart ==
  /\ t > 0 /\ tickInfo.thrownAt # "planning"
  /\ \E f, g \in PBCFirms :
       firms[f].perceived # firms[g].perceived /\ firms[f].planned > 0 /\ firms[g].planned > 0

\* C17: after every tick the ledger holds no order whose filled flag is set
LedgerSwept == \A i \in DOMAIN orders : ~orders[i].filled

-----------------------------------------------------------------------------
\* C18: rolling window.  After every tick of part_000 the live series holds at
\* most the history length configured at that moment, and its points are the most
\* recent ticks in increasing order (the ticks t - len + 1 .. t); this includes the
\* ticks that follow a press of a history button.
RollingWindow ==
  [][(variant = "part_000" /\ TickStep)
       => /\ series'.len <= hist'.historyLen
          /\ series'.last = t'
          /\ series'.first = t' - series'.len + 1]_vars

\* a tick has run after the planner shortened the window below the points held
WindowShortened ==
  /\ variant = "part_000" /\ tickInfo.completed /\ series.last = t
  /\ hist.historyLen < HistoryLen0 /\ t >= hist.historyLen

-----------------------------------------------------------------------------
\* C19: log cap.  After every tick the event log holds at most 5000 entries, and a
\* tick whose pushes take it above 5000 leaves exactly the 2000 most recent ones
\* (everything older is cut off, nothing is reordered).
LogCapped ==
  [][TickStep
       => LET pushed == (logs'.len + logs'.dropped) - (logs.len + logs.dropped)
          IN /\ logs'.len <= LogCap
             /\ (logs.len + pushed > LogCap) => (logs'.len = LogKeep)]_vars

\* the log has just been pushed above the cap
LogOverflow == logs.len + logs.dropped > LogCap

-----------------------------------------------------------------------------
\* the state the claim speaks of: tick counter, price, firms, orders and series
simState == <<t, price, firms, orders, series>>

\* a step in which time passes: no input of the user is part of it
TimePasses == nInputs' = nInputs

\* while paused or finished the passage of time changes nothing
StoppedStandsStill == (~ticking /\ TimePasses) => UNCHANGED simState

\* pausing, resuming and finalising leave the simulation state as it is, so the
\* tick after a resume starts from the state of the pause
SwitchKeepsState == (ctl'.running # ctl.running) => UNCHANGED simState

\* C20 as stated: pause and finalize.  While paused or finished no tick executes
\* and time changes nothing; resuming continues from the state of the pause; once
\* finalised, no tick executes until initSimulation has run again.
PauseFinalize ==
  [][/\ StoppedStandsStill
     /\ SwitchKeepsState
     /\ ctl.finalized => ~TickStep]_vars

\* C20 amended: the same for pause and for the time the session is marked finished;
\* in part_000 the mark stays (and no tick executes) until initSimulation runs again,
\* in part_001 the closing dialog removes the mark without initSimulation, and ticks
\* execute again only after the user has also pressed Run.
PauseFinalizeWhileFinished ==
  [][/\ StoppedStandsStill
     /\ SwitchKeepsState
     /\ (variant = "part_000" /\ ctl.finalized) => (~TickStep /\ ctl'.finished)
     /\ (variant = "part_001" /\ ctl.finalized /\ TickStep)
          => (~ctl.finished /\ ctl.running)]_vars

\* a simulation that has ticked was finalised
FinalizedAfterTicks == ctl.finalized /\ ctl.finished /\ ~ctl.running /\ t > 0

\* part_001: finalised, dialog closed, Run pressed, and a tick has executed
ResumedAfterFinalize ==
  /\ variant = "part_001" /\ tickInfo.finalized /\ t > 0
  /\ ctl.finalized /\ ~ctl.finished /\ ctl.running

-----------------------------------------------------------------------------
\* a step in which the survey runs
SurveyStep == ctl'.surveys # ctl.surveys

\* C21: the survey is read-only.  A run of olsSurvey / runSurvey leaves the tick
\* counter, price, consumers, firms, orders, logs and series as they were.
SurveyReadOnly ==
  [][SurveyStep => UNCHANGED <<t, price, consumers, firms, orders, logs, series>>]_vars

\* a survey has run on an initialised simulation
Surveyed == ctl.surveys > 0 /\ DOMAIN consumers # {}

-----------------------------------------------------------------------------
\* the consumer ids and the firm ids of every tier
Population == <<DOMAIN consumers, [l \in SeqSet(Levels) |-> {f \in DOMAIN firms : firms[f].level = l}]>>

\* the steps the claim names: a tick, a change of the override (a new function, its
\* removal in part_000, the mode radio of part_001), a survey, a finalize
OverrideStep ==
  \/ userDemandFn' # userDemandFn /\ (userDemandFn' # NoFn \/ variant = "part_000")
  \/ mode' # mode
FinalizeStep == ctl'.finished /\ ~ctl.finished

\* C22: fixed population.  No tick, override change, survey or finalize adds or
\* removes a consumer or a firm: the set of consumer ids and the set of firm ids of
\* each tier stay as initSimulation made them.
FixedPopulation ==
  [][(TickStep \/ OverrideStep \/ SurveyStep \/ FinalizeStep) => UNCHANGED Population]_vars

\* an initialised population has gone through ticks, a survey and a finalize
PopulationKept ==
  /\ DOMAIN consumers # {} /\ DOMAIN firms # {}
  /\ t > 0 /\ ctl.surveys > 0 /\ ctl.finalized

-----------------------------------------------------------------------------
\* the Final firms planned the last tick from the demand it is measured against:
\* no override, and an estimator factor of exactly 1 in every firm
SameSample ==
  /\ t > 0 /\ tickInfo.fn = NoFn
  /\ \A f \in PBCFirms : firms[f].perceived = tickInfo.Qagg

-----------------------------------------------------------------------------
\* Scenario A: 350 linear consumers with a = 120 and b = 6, one Final firm of
\* capacity 1000
ScenarioA ==
  /\ Len(Consumers) = ConsumersN /\ Len(PBCs) = 1
  /\ \A c \in DOMAIN consumers :
       consumers[c].type = "linear" /\ consumers[c].a = 1200 /\ consumers[c].b = 600
  /\ firms[PBCs[1]].capacity = 10000

\* |aggregateDemand(price) - totalCapacity| < 0.01 * totalCapacity, demand without noise
Calibrated ==
  100 * Abs(sumDemand(Consumers, consumers, price, 500) - sumCapacity(PBCs, firms))
    < sumCapacity(PBCs, firms)

\* C24: calibration of Scenario A.  From a starting price of 1.0 the calibration
\* loop ends with a price at which the aggregate demand is within 1% of the total
\* capacity of the Final tier.
CalibrationA == (ScenarioA /\ series.len = 1) => Calibrated

\* a calibration that ends within the tolerance after moving the price
CalibrationConverged == series.len = 1 /\ price # P0 /\ Calibrated

-----------------------------------------------------------------------------
\* part_001 right after initSimulation: the point of tick 0 holds QaggConsumers
Initialised001 == variant = "part_001" /\ t = 0 /\ series.len = 1 /\ PBCFirms # {}

\* no Final firm sits on the capacity floor of 0.1
OffFloor == \A f \in PBCFirms : firms[f].capacity > 1

\* C25: equilibrium initialisation of part_001.  After initSimulation the capacities
\* of the Final firms add up to the aggregate demand at p0 (up to the rounding of
\* one tenth per firm) unless a firm is on the capacity floor, and every Final firm
\* starts with an inventory equal to its capacity.
EquilibriumInit ==
  Initialised001 =>
    /\ OffFloor => Abs(sumCapacity(present(PBCs, firms), firms) - point.qDemand)
                     <= Cardinality(PBCFirms)
    /\ \A f \in PBCFirms : firms[f].inventory = firms[f].capacity

\* two Final firms were initialised off the floor
InitialisedTwo == Initialised001 /\ OffFloor /\ Cardinality(PBCFirms) = 2

-----------------------------------------------------------------------------
\* a step in which initSimulation runs on an existing simulation
ReinitStep == ctl'.inits # ctl.inits

\* C26: re-initialisation is wholesale.  After any history of ticks, overrides and
\* surveys, initSimulation with the same seed (the same draws) gives the state of a
\* first initialisation: tick 0, empty ledger, empty logs, no innovations, override
\* cleared, and the consumers, firms and initial price of the first call.
Reinitialised ==
  [][ReinitStep
       => /\ t' = 0 /\ orders' = << >> /\ logs' = NoLogs /\ innovations' = << >>
          /\ userDemandFn' = NoFn
          /\ consumers' = ctl'.first.consumers
          /\ firms' = ctl'.first.firms
          /\ price' = ctl'.first.price]_vars

\* a simulation that had ticked was initialised again
ReinitialisedAfterRun == ctl.inits >= 2 /\ ctl.afterRun /\ t = 0

-----------------------------------------------------------------------------
\* the external replenishments scheduled for supplier `pmp` from tick `since` on
ExternalFor(pmp, since) ==
  {j \in DOMAIN orders : orders[j].level = "EXTERNAL->PMP" /\ orders[j].to = pmp
                            /\ orders[j].created >= since}

\* the orders on whose account more was handed over than they ask for
OverDelivered == {i \in DOMAIN orders : orders[i].delivered > orders[i].amount}

\* a PFP->PMP order of part_001 of which one part has been supplied so far
PartlySupplied(i) ==
  /\ variant = "part_001"
  /\ orders[i].level = "PFP->PMP"
  /\ orders[i].fills = 1
  /\ ~orders[i].filled

\* the remainder of a partly supplied order has its replenishment scheduled
RemainderScheduled ==
  \A i \in DOMAIN orders :
    PartlySupplied(i) =>
      \E j \in ExternalFor(orders[i].to, orders[i].due) :
        orders[j].amount = orders[i].amount - orders[i].delivered

\* C27: delivery conservation.  What has been handed over on the account of an
\* order never exceeds the amount of the order, however many ticks it stays due;
\* in part_001 a PFP->PMP order supplied in part has an external replenishment
\* scheduled for exactly what is still missing.
DeliveryConserved ==
  /\ OverDelivered = {}
  /\ RemainderScheduled

\* the child orders filled so far whose parent is still on the ledger
FilledChildren ==
  {j \in DOMAIN orders : /\ orders[j].level = "PFP->PMP"
                         /\ orders[j].filled
                         /\ orders[j].casc.seen
                         /\ HasOrder(orders, orders[j].orig)}

ParentOf(j) == orders[OrderIdx(orders, orders[j].orig)]

\* the Intermediate firm covered the pending parent once child j was filled
Covered(j) == orders[j].casc.pending /\ orders[j].casc.inv >= ParentOf(j).amount
Short(j) == orders[j].casc.inv < ParentOf(j).amount

\* C28: cascade fill.  When a PFP->PMP child is filled and the Intermediate firm
\* then covers the whole amount of the pending parent, the parent is filled in
\* that same step and its amount moves to the Final firm; when the firm does not
\* cover it, the parent keeps its status and nothing moves to the Final firm.
CascadeFill ==
  \A j \in FilledChildren :
    /\ Covered(j) => /\ orders[j].casc.filled
                     /\ orders[j].casc.moved = ParentOf(j).amount
                     /\ ParentOf(j).filled
    /\ Short(j) => /\ orders[j].casc.filled = ~orders[j].casc.pending
                   /\ orders[j].casc.moved = 0

\* both cases have happened: one child's fill completed its parent, another
\* child's fill left its parent pending
CascadeBothWays ==
  /\ \E j \in FilledChildren : Covered(j)
  /\ \E j \in FilledChildren : Short(j) /\ orders[j].casc.pending

\* a tick that got as far as the serving step
ServingStep == TickStep /\ tickInfo'.thrownAt # "planning"

\* after the serving step the stock of f is what it held minus what it served
StockConsumed(f) == firms'[f].inventory = firms'[f].invBefore - firms'[f].produced

\* C29: serving consumes inventory.  In every tick each Final firm's inventory
\* after the serving step is its inventory before the step minus the quantity it
\* served, one (tick, served) entry is appended to its history, and it serves no
\* more than it held in inventory.
ServingConsumes ==
  [][ServingStep =>
       \A f \in PBCFirms : /\ StockConsumed(f)
                           /\ firms'[f].nHistory = firms[f].nHistory + 1
                           /\ firms'[f].produced <= firms'[f].invBefore]_vars

\* a tick of part_000 whose price in force is not the one the tick before
\* evaluated the demand at
PriceChangedStep ==
  /\ variant = "part_000"
  /\ TickStep
  /\ t >= 1
  /\ tickInfo'.priceInForce # tickInfo.priceInForce

\* the nudge of a by feedbackStrength * (previousPrice - currentPrice), in tenths
feedbackNudge(previousPrice, currentPrice) ==
  (feedbackStrength(phaseIdx) * (previousPrice - currentPrice)) \div 1000000

\* C30: price reaction and feedback.  In a tick whose price in force differs from
\* the price at which the demand of the tick before was evaluated, every consumer
\* reacts (its reaction factor is drawn, not the neutral 1) and its a is nudged
\* by feedbackStrength * (previousPrice - currentPrice).
PriceReaction ==
  [][PriceChangedStep =>
       /\ 100 \notin tickInfo'.reacts
       /\ tickInfo'.nudges = {feedbackNudge(tickInfo.priceInForce,
                                            tickInfo'.priceInForce)}]_vars

\* the scheduled update of consumer c ran in this step
UpdatedNow(c) == consumers'[c].nextUpdateAt # consumers[c].nextUpdateAt

\* C31: consumer schedules stay in the future.  After every tick t the
\* nextUpdateAt of every consumer is > t (and in part_000 its nextChange is > t);
\* a scheduled update runs only in a tick with t >= nextUpdateAt and moves
\* nextUpdateAt into [t + 30, t + 90].
SchedulesAhead ==
  [][TickStep =>
       \A c \in DOMAIN consumers' :
         /\ consumers'[c].nextUpdateAt > t'
         /\ variant = "part_000" => consumers'[c].nextChange > t'
         /\ UpdatedNow(c) => /\ t' >= consumers[c].nextUpdateAt
                             /\ consumers'[c].nextUpdateAt \in (t' + 30)..(t' + 90)]_vars

\* a consumer of part_001 has had its scheduled update
Rescheduled ==
  /\ variant = "part_001"
  /\ \E c \in DOMAIN consumers : consumers[c].nextUpdateAt >= 60
                                    /\ consumers[c].nextUpdateAt - 90 <= t

\* the tick counter moves one tick forward or starts over with a new state
OneTickForward == t' # t => (t' = t + 1 \/ t' = 0)

\* C32: single tick driver.  Whatever the planner pauses, resumes or changes
\* (speed, price mode, manual price, phase, override), at most one tick interval
\* is live, it is live exactly while the session runs unfinished, and the tick
\* counter only moves one tick at a time.
SingleDriver ==
  [][/\ hist.timers <= 1 /\ hist'.timers <= 1
     /\ (hist'.timers = 1) = (ctl'.running /\ ~ctl'.finished)
     /\ OneTickForward]_vars

\* the planner changed the speed, paused and resumed, and one interval drives on
DrivenAfterInputs ==
  /\ hist.tickMs # TickMs000
  /\ ctl.running /\ ~ctl.finished
  /\ hist.timers = 1
  /\ nInputs >= 3
  /\ t >= 2

\* initSimulation has populated the state: there are consumers and firms
Populated == ctl.inits > 0 /\ DOMAIN consumers # {} /\ DOMAIN firms # {}

\* C33: initialized before ticking.  No tick executes on a state that
\* initSimulation has not populated (a state with no consumers and no firms).
InitializedBeforeTicking == [][TickStep => Populated]_vars

\* order o as it stood before this step (a new order has nothing handed over)
Before(o) ==
  IF HasOrder(orders, o.id) THEN orders[OrderIdx(orders, o.id)]
  ELSE [o EXCEPT !.filled = FALSE, !.delivered = 0]

\* this step marked o filled or handed something over on its account
ActedOn(o) == (o.filled /\ ~Before(o).filled) \/ o.delivered > Before(o).delivered

\* C34: no early fill.  No order is marked filled, and nothing is handed over on
\* its account, in a tick before its due tick; parents filled by the cascade
\* from a child included.
NoEarlyFill ==
  [][\A i \in DOMAIN orders' : ActedOn(orders'[i]) => t' >= orders'[i].due]_vars

\* a child is filled in its due tick and the cascade hands its parent over in
\* that same tick
CascadeOnDueTick ==
  \E j \in FilledChildren :
    /\ orders[j].due = t
    /\ orders[j].casc.pending /\ orders[j].casc.moved > 0
    /\ ParentOf(j).due < t

\* the latest metrics record is the record of the tick tickInfo describes
RecordOfTick == point.t = t /\ tickInfo.completed /\ series.len > 0

\* C35: record price alignment.  The price of every metrics record is the price
\* at which the demand and the served quantity of that record were evaluated
\* (as it is, or rounded to four decimals as the record stores it).
RecordPriceAligned ==
  RecordOfTick => point.price \in {tickInfo.priceInForce, toFixed4(tickInfo.priceInForce)}

\* a session of part_000 finalised after some ticks
Finalized000 == variant = "part_000" /\ ctl.finalized /\ t > 0

\* C36: final statistics cover the run.  When the session is finalised after N
\* executed ticks the reported tick count is N and the statistics run over the
\* records of the ticks 1 .. N, whatever the size of the display window.
FinalStatsCoverRun ==
  Finalized000 => ctl.stats = [ticks |-> t, first |-> 1, last |-> t]

RECURSIVE InFlight(_, _)
\* the total amount of the unfilled PBC->PFP orders of firm f in the ledger ords
InFlight(ords, f) ==
  IF ords = <<>> THEN 0
  ELSE (IF Head(ords).level = "PBC->PFP" /\ Head(ords).from = f /\ ~Head(ords).filled
        THEN Head(ords).amount ELSE 0) + InFlight(Tail(ords), f)

\* firm f placed an order in this tick
OrderedNow(f) ==
  \E i \in DOMAIN orders' : /\ orders'[i].level = "PBC->PFP"
                            /\ orders'[i].from = f
                            /\ orders'[i].created = t'

\* C37: no over-ordering.  The unfilled PBC->PFP orders of a Final firm never add
\* up to more than its deficit (planned minus inventory), and a firm whose
\* deficit its orders in flight already cover places no further order for it.
NoOverOrdering ==
  [][ServingStep =>
       \A f \in PBCFirms :
         /\ InFlight(orders', f) <= Max(0, firms'[f].planned - firms'[f].inventory)
         /\ InFlight(orders, f) >= firms'[f].planned - firms[f].inventory
              => ~OrderedNow(f)]_vars

\* C38: monotone technology.  Over every tick the productivity A of a firm does
\* not decrease and its marginalCost does not increase, and both change only in
\* a tick that adopts one of the firm's innovations.
MonotoneTechnology ==
  [][TickStep =>
       \A f \in DOMAIN firms :
         /\ firms'[f].A >= firms[f].A
         /\ firms'[f].marginalCost <= firms[f].marginalCost
         /\ (firms'[f].A # firms[f].A \/ firms'[f].marginalCost # firms[f].marginalCost)
              => AdoptedNowOf(f) # {}]_vars

\* a firm that has adopted is more productive and cheaper than it was created
Improved ==
  /\ ctl.inits = 1
  /\ \E f \in DOMAIN firms :
       /\ firms[f].A > ctl.first.firms[f].A
       /\ firms[f].marginalCost < ctl.first.firms[f].marginalCost
       /\ \E k \in DOMAIN innovations : innovations[k].firm = f /\ innovations[k].adopted

\* the innovations adopted so far
AdoptedSet == {k \in DOMAIN innovations : innovations[k].adopted}

\* C39: adoption on time.  While ticks go on every scheduled innovation is
\* adopted, in the tick equal to its adoptAt and not later: after every tick no
\* innovation that is not yet adopted has its adoptAt behind it, every adopted
\* one was adopted in the tick adoptAt, and there are never more adopted
\* innovations than scheduled ones.
AdoptionOnTime ==
  /\ \A k \in DOMAIN innovations :
       IF innovations[k].adopted
         THEN innovations[k].adoptedAt = innovations[k].adoptAt
       ELSE innovations[k].adoptAt > t
  /\ Cardinality(AdoptedSet) <= Len(innovations)

====
